---- MODULE Spec2Model ----
(***************************************************************************)
(* Calendar dashboard: the event service (netlify/functions/events.js,     *)
(* handler), the account service (netlify/functions/auth.js, handler) and  *)
(* the browser client (script.js: event store, persistence adapter, auth   *)
(* controller).  The two services share one database (tables users and     *)
(* events); every `await sql` of a handler is one atomic database step.    *)
(***************************************************************************)
EXTENDS Integers, Sequences, FiniteSets, TLC

VARIABLES
  dbUsers,      \* table users: sequence of rows [id, username, password]
  dbEvents,     \* table events: sequence of rows, in insertion order
  srv,          \* event-service handler invocations, one per slot
  nReq,         \* requests received so far by the service under check
  gh,           \* ghost, per slot: what the invocation saw when it was received
  epoch,        \* ghost: per user, number of POST /events received so far
  settled,      \* ghost: per user, the payload of the last POST that ran alone
  asrv,         \* account-service handler invocations, one per slot
  agh           \* ghost, per slot: what the account invocation saw when received

VARIABLES
  currentUser,  \* state.currentUser (Null = no user)
  marker,       \* localStorage item 'currentUser'
  users,        \* the users object authInit got from loadUsers()
  store,        \* STUB_EVENTS
  dashboardInitialized,
  authVisible,  \* authContainer is displayed
  dashVisible,  \* dashboardEl is displayed
  menuVisible,  \* userMenu is displayed
  authForm,     \* the active authentication form
  alertMsg,     \* the text of the last alert()
  selectedDate, \* state.selectedDate, as a date key
  view,         \* what renderCalendar and renderPlanner last put in the page
  listeners,    \* number of times attachListeners has run
  net,          \* fetch requests and responses in flight
  signedUp,     \* ghost: users whose signup the account service accepted
  unsaved,      \* ghost: the store changed after the last save was issued
  saveLost,     \* ghost: a save request failed
  nSubmit,      \* auth submissions that sent a request, so far
  nMut,         \* planner actions so far
  nFail,        \* requests lost on the network so far
  nSel,         \* clicks on a calendar cell so far
  nNoop,        \* handler runs so far that returned without touching anything
  lastAdd       \* ghost: the store before and after the last run of the add handler

VARIABLES
  grid,         \* the month renderCalendar shows and the dates of its cells
  location,     \* state.location, the coordinates as one text
  locationName, \* state.locationName
  forecast,     \* state.forecast
  currentWeather, \* state.currentWeather
  wnet,         \* requests to the weather and the geocoding provider in flight
  clock,        \* the local date, hour and UTC offset of the browser
  nLoc,         \* answers to the location prompt so far
  applied       \* ghost: the place and the outcome of each weather request settled so far

dbVars == <<dbUsers, dbEvents>>
svcVars == <<srv, nReq, gh, epoch, settled, asrv, agh>>
pageVars == <<currentUser, marker, users, dashboardInitialized, authVisible,
              dashVisible, menuVisible, authForm, alertMsg, listeners, signedUp>>
clientVars == <<pageVars, store, selectedDate, view, net, unsaved, saveLost,
                nSubmit, nMut, nFail, nSel, nNoop, lastAdd>>
weatherVars == <<location, locationName, forecast, currentWeather, wnet, clock, nLoc,
                 applied>>
widgetVars == <<grid, weatherVars>>
vars == <<dbVars, svcVars, clientVars, widgetVars>>

-----------------------------------------------------------------------------
(* Bounds *)
MaxSlots == 2        \* handler invocations that can run concurrently
MaxRequests == 3     \* requests received in one behaviour of a service spec
MaxSubmits == 2      \* auth form submissions that send a request
MaxCarried == 1      \* requests still in flight when the user submits or edits
MaxFailures == 1     \* requests lost on the network in one behaviour
MaxAuthPending == 1  \* account-service requests of the page in flight at once
MaxMutations == 2    \* planner actions (add, delete, edit) in one behaviour
MaxEdits == 1        \* of which edits and clicks on an item: only as the first
MaxSelects == 1      \* clicks on a calendar cell in one behaviour
MaxLocationChanges == 2   \* answers to the location prompt
MinYear == 2019      \* first and last year of the months the calendar shows
MaxYear == 2028
MaxNoops == 1        \* handler runs that return early in one behaviour

-----------------------------------------------------------------------------
(* Values *)
Null == "null"                     \* JSON null / undefined / absent property
Blank == ""                        \* the empty string
Users == {"alice", "bob"}
Passwords == {"pw1", "pw2"}
ACCENT == "#3EA6FF"
DateKeyOrder == <<"2025-08-18", "2025-08-19", "2025-08-20", "2025-08-21">>
DateKeys == {DateKeyOrder[i] : i \in 1..Len(DateKeyOrder)}
Slots == 1..MaxSlots

\* A bucket of a date-key -> list mapping: has = the key is a property.
NoBucket == [has |-> FALSE, evs |-> <<>>]
Bucket(list) == [has |-> TRUE, evs |-> list]
EmptyMap == [k \in DateKeys |-> NoBucket]

\* Day number of a date key (text -> DATE) and back (DATE -> text).
DayOf(k) == CHOOSE i \in 1..Len(DateKeyOrder) : DateKeyOrder[i] = k

WireEvent(t, s, e, a, c) ==
  [title |-> t, start |-> s, end |-> e, allDay |-> a, color |-> c]
NoEvent == WireEvent(Null, Null, Null, FALSE, Null)

-----------------------------------------------------------------------------
(* Database statements *)

\* SELECT id[, password] FROM users WHERE username = name
SelectUser(du, name) == SelectSeq(du, LAMBDA r : r.username = name)

\* INSERT INTO users (username, password): username is UNIQUE, id is SERIAL.
UserInsertFails(du, name) == Len(SelectUser(du, name)) > 0

InsertUser(du, name, pw) ==
  Append(du, [id |-> Len(du) + 1, username |-> name, password |-> pw])

\* UPDATE users SET password = pw WHERE id = uid
UpdatePassword(du, uid, pw) ==
  [i \in 1..Len(du) |-> IF du[i].id = uid THEN [du[i] EXCEPT !.password = pw] ELSE du[i]]

\* Mutant of DeleteEvents: the statement removes nothing.
DeleteEventsNothing(de, uid) == de

\* DELETE FROM events WHERE user_id = uid
DeleteEvents(de, uid) == SelectSeq(de, LAMBDA r : r.user_id # uid)

\* SELECT ... FROM events WHERE user_id = uid
SelectEvents(de, uid) == SelectSeq(de, LAMBDA r : r.user_id = uid)

\* INSERT INTO events: every column but color is NOT NULL.
EventInsertFails(ev) ==
  ev.title = Null \/ ev.start = Null \/ ev.end = Null

\* color || '#3EA6FF'
ColorOrAccent(c) == IF c = Null \/ c = Blank THEN ACCENT ELSE c

EventRow(uid, dateKey, ev) ==
  [user_id |-> uid, date |-> DayOf(dateKey), title |-> ev.title,
   start_time |-> ev.start, end_time |-> ev.end, all_day |-> ev.allDay,
   color |-> ColorOrAccent(ev.color)]

\* row.date.toISOString().split('T')[0]
RowDateKey(day) == DateKeyOrder[day]

\* eventRows.forEach(row => eventsMap[dateKey].push({...}))
RECURSIVE BuildEventsMap(_, _)
BuildEventsMap(rows, acc) ==
  IF rows = <<>> THEN acc
  ELSE LET row == Head(rows)
           k == RowDateKey(row.date)
           ev == WireEvent(row.title, row.start_time, row.end_time, row.all_day, row.color)
       IN BuildEventsMap(Tail(rows),
            [acc EXCEPT ![k] = Bucket(Append(acc[k].evs, ev))])

-----------------------------------------------------------------------------
(* Event service: handler of netlify/functions/events.js *)

\* A request body's events value: a mapping (kind "map"; the keys in bad hold
\* a value that is not a list), JSON null, an absent property, or a body that
\* is not JSON at all.
Payload(kind, map, bad) == [kind |-> kind, map |-> map, bad |-> bad]
MapPayload(map) == Payload("map", map, {})
NoPayload == Payload("undef", EmptyMap, {})

IdleHandler ==
  [method |-> "none", user |-> Null, payload |-> NoPayload, pc |-> "idle",
   userId |-> 0, todo |-> <<>>, status |-> 0, body |-> EmptyMap]

Respond(h, status, body) ==
  [h EXCEPT !.pc = "done", !.status = status, !.body = body, !.todo = <<>>]

\* for (const [dateKey, list] of Object.entries(events)) for (const ev of list):
\* the inserts in order, cut at the first bucket that cannot be iterated.
RECURSIVE InsertPlan(_, _)
InsertPlan(p, i) ==
  IF i > Len(DateKeyOrder) THEN <<>>
  ELSE LET k == DateKeyOrder[i] IN
       IF ~p.map[k].has THEN InsertPlan(p, i + 1)
       ELSE IF k \in p.bad THEN <<[throw |-> TRUE, date |-> k, ev |-> NoEvent]>>
       ELSE [j \in 1..Len(p.map[k].evs) |->
               [throw |-> FALSE, date |-> k, ev |-> p.map[k].evs[j]]]
            \o InsertPlan(p, i + 1)

\* What follows an awaited statement of the insert loop: the next insert, the
\* TypeError of a bucket that is not a list, or the 200 response.
AfterInsert(h, todo) ==
  IF todo = <<>> THEN Respond(h, 200, EmptyMap)
  ELSE IF Head(todo).throw THEN Respond(h, 500, EmptyMap)
  ELSE [h EXCEPT !.pc = "post_insert", !.todo = todo]

\* Lines 44-51, 76-81, 105-110: everything before the first awaited statement.
Receive(method, user, payload) ==
  LET h == [IdleHandler EXCEPT !.method = method, !.user = user, !.payload = payload] IN
  CASE method = "GET" ->
         IF user = Null THEN Respond(h, 400, EmptyMap)
         ELSE [h EXCEPT !.pc = "get_user"]
    [] method = "POST" ->
         IF payload.kind = "badjson" THEN Respond(h, 500, EmptyMap)
         ELSE IF user = Null \/ payload.kind = "undef" THEN Respond(h, 400, EmptyMap)
         ELSE [h EXCEPT !.pc = "post_user"]
    [] OTHER -> Respond(h, 405, EmptyMap)

Out(h, du, de) == [h |-> h, du |-> du, de |-> de]

\* Mutant of GetSelectUser: a missing user is created, as POST does.
GetSelectUserCreates(h, du, de) ==
  LET rows == SelectUser(du, h.user) IN
  IF Len(rows) = 0
  THEN Out(Respond(h, 200, EmptyMap), InsertUser(du, h.user, Blank), de)
  ELSE Out([h EXCEPT !.pc = "get_events", !.userId = rows[1].id], du, de)

\* Line 53-57: SELECT id FROM users (GET).
GetSelectUser(h, du, de) ==
  LET rows == SelectUser(du, h.user) IN
  IF Len(rows) = 0 THEN Out(Respond(h, 200, EmptyMap), du, de)
  ELSE Out([h EXCEPT !.pc = "get_events", !.userId = rows[1].id], du, de)

\* Lines 59-72: SELECT the user's events and group them by date key.
GetSelectEvents(h, du, de) ==
  Out(Respond(h, 200, BuildEventsMap(SelectEvents(de, h.userId), EmptyMap)), du, de)

\* Lines 84-93: SELECT id FROM users (POST).
PostSelectUser(h, du, de) ==
  LET rows == SelectUser(du, h.user) IN
  IF Len(rows) = 0 THEN Out([h EXCEPT !.pc = "post_newuser"], du, de)
  ELSE Out([h EXCEPT !.pc = "post_delete", !.userId = rows[1].id], du, de)

\* Mutant of PostInsertUser: the record is created with a default password.
PostInsertUserDefault(h, du, de) ==
  IF UserInsertFails(du, h.user) THEN Out(Respond(h, 500, EmptyMap), du, de)
  ELSE Out([h EXCEPT !.pc = "post_delete", !.userId = Len(du) + 1],
           InsertUser(du, h.user, "pw1"), de)

\* Line 89-90: INSERT INTO users (username, '') RETURNING id.
PostInsertUser(h, du, de) ==
  IF UserInsertFails(du, h.user) THEN Out(Respond(h, 500, EmptyMap), du, de)
  ELSE Out([h EXCEPT !.pc = "post_delete", !.userId = Len(du) + 1],
           InsertUser(du, h.user, Blank), de)

\* Line 95, then the start of the loop of line 97 (Object.entries(null) throws).
PostDeleteEvents(h, du, de) ==
  LET de2 == DeleteEvents(de, h.userId) IN
  IF h.payload.kind = "null" THEN Out(Respond(h, 500, EmptyMap), du, de2)
  ELSE Out(AfterInsert(h, InsertPlan(h.payload, 1)), du, de2)

\* Line 100: one INSERT INTO events, then the next turn of the loops.
PostInsertEvent(h, du, de) ==
  LET it == Head(h.todo) IN
  IF EventInsertFails(it.ev) THEN Out(Respond(h, 500, EmptyMap), du, de)
  ELSE Out(AfterInsert(h, Tail(h.todo)), du,
           Append(de, EventRow(h.userId, it.date, it.ev)))

\* One awaited statement of a running handler.
EventsStep(h, du, de) ==
  CASE h.pc = "get_user" -> GetSelectUser(h, du, de)
    [] h.pc = "get_events" -> GetSelectEvents(h, du, de)
    [] h.pc = "post_user" -> PostSelectUser(h, du, de)
    [] h.pc = "post_newuser" -> PostInsertUser(h, du, de)
    [] h.pc = "post_delete" -> PostDeleteEvents(h, du, de)
    [] h.pc = "post_insert" -> PostInsertEvent(h, du, de)
    [] OTHER -> Out(h, du, de)

\* A handler run from its current statement to its response with no other
\* statement in between.
RECURSIVE RunEvents(_, _, _)
RunEvents(h, du, de) ==
  IF h.pc = "done" \/ h.pc = "idle" THEN Out(h, du, de)
  ELSE LET o == EventsStep(h, du, de) IN RunEvents(o.h, o.du, o.de)

\* The GET response the database would give for a user right now.
StoredMap(du, de, user) == RunEvents(Receive("GET", user, NoPayload), du, de).h.body

-----------------------------------------------------------------------------
(* Account service: handler of netlify/functions/auth.js *)

\* A request body: the fields remoteAuth put in it (Null = property absent).
AuthBody(action, username, password, newPassword) ==
  [action |-> action, username |-> username, password |-> password,
   newPassword |-> newPassword]

\* event.body when it is not the text of a JSON object: text that is not
\* JSON, the JSON text null, and no body at all.
BadBody == [json |-> "invalid"]
NullBody == [json |-> "null"]
NoBody == [json |-> "absent"]

JsonKind(body) == IF body \in {BadBody, NullBody, NoBody} THEN body.json ELSE "object"

\* Lines 41 and 45: JSON.parse(event.body || '{}') and the fields taken from it.
AuthPayload(body) ==
  IF JsonKind(body) = "object" THEN body ELSE AuthBody(Null, Null, Null, Null)

IdleAuth ==
  [method |-> "none", body |-> AuthBody(Null, Null, Null, Null), json |-> "object",
   pc |-> "idle", userId |-> 0, status |-> 0, reply |-> "none"]

\* return { statusCode, body }: the body is {status:'ok'} in the returns with
\* 200 and {error: ...} in all others.
AuthRespond(h, status) ==
  [h EXCEPT !.pc = "done", !.status = status,
            !.reply = IF status = 200 THEN "ok" ELSE "error"]

\* Line 45: destructuring null throws outside both try blocks; the handler's
\* promise is rejected and the function returns no response.
AuthThrow(h) == [h EXCEPT !.pc = "done", !.status = 0, !.reply = "none"]

\* !x of JavaScript for a string that may be absent.
Falsy(x) == x = Null \/ x = Blank

\* Lines 36-48 and the dispatch on action up to its first awaited statement.
AuthReceive(method, text) ==
  LET body == AuthPayload(text)
      h == [IdleAuth EXCEPT !.method = method, !.body = body, !.json = JsonKind(text)]
  IN
  IF method # "POST" THEN AuthRespond(h, 405)
  ELSE IF h.json = "invalid" THEN AuthRespond(h, 400)
  ELSE IF h.json = "null" THEN AuthThrow(h)
  ELSE IF Falsy(body.action) \/ Falsy(body.username) THEN AuthRespond(h, 400)
  ELSE CASE body.action = "signup" -> [h EXCEPT !.pc = "signup_select"]
         [] body.action = "login" -> [h EXCEPT !.pc = "login_select"]
         [] body.action = "changePassword" ->
              IF Falsy(body.password) \/ Falsy(body.newPassword)
              THEN AuthRespond(h, 400)
              ELSE [h EXCEPT !.pc = "change_select"]
         [] OTHER -> AuthRespond(h, 400)

\* Lines 52-55: SELECT id FROM users WHERE username.
SignupSelect(h, du) ==
  IF Len(SelectUser(du, h.body.username)) > 0
  THEN [h |-> AuthRespond(h, 400), du |-> du]
  ELSE [h |-> [h EXCEPT !.pc = "signup_insert"], du |-> du]

\* Mutant of SignupInsert: the record is stored with an empty password.
SignupInsertBlank(h, du) ==
  IF UserInsertFails(du, h.body.username) \/ h.body.password = Null
  THEN [h |-> AuthRespond(h, 500), du |-> du]
  ELSE [h |-> AuthRespond(h, 200), du |-> InsertUser(du, h.body.username, Blank)]

\* Lines 57-58: INSERT INTO users; password is NOT NULL, username UNIQUE.
SignupInsert(h, du) ==
  IF UserInsertFails(du, h.body.username) \/ h.body.password = Null
  THEN [h |-> AuthRespond(h, 500), du |-> du]
  ELSE [h |-> AuthRespond(h, 200),
        du |-> InsertUser(du, h.body.username, h.body.password)]

\* Mutant of LoginSelect: the password is not compared.
LoginSelectAnyPassword(h, du) ==
  IF Len(SelectUser(du, h.body.username)) = 0
  THEN [h |-> AuthRespond(h, 401), du |-> du]
  ELSE [h |-> AuthRespond(h, 200), du |-> du]

\* Lines 62-66: SELECT id, password and compare.
LoginSelect(h, du) ==
  LET rows == SelectUser(du, h.body.username) IN
  IF Len(rows) = 0 \/ rows[1].password # h.body.password
  THEN [h |-> AuthRespond(h, 401), du |-> du]
  ELSE [h |-> AuthRespond(h, 200), du |-> du]

\* Lines 73-76: SELECT id, password and compare with the current password.
ChangeSelect(h, du) ==
  LET rows == SelectUser(du, h.body.username) IN
  IF Len(rows) = 0 \/ rows[1].password # h.body.password
  THEN [h |-> AuthRespond(h, 401), du |-> du]
  ELSE [h |-> [h EXCEPT !.pc = "change_update", !.userId = rows[1].id], du |-> du]

\* Mutant of ChangeUpdate: the request is answered without the UPDATE.
ChangeUpdateSkipped(h, du) == [h |-> AuthRespond(h, 200), du |-> du]

\* Lines 78-79: UPDATE users SET password.
ChangeUpdate(h, du) ==
  [h |-> AuthRespond(h, 200), du |-> UpdatePassword(du, h.userId, h.body.newPassword)]

\* One awaited statement of a running account-service invocation.
AuthStep(h, du) ==
  CASE h.pc = "signup_select" -> SignupSelect(h, du)
    [] h.pc = "signup_insert" -> SignupInsert(h, du)
    [] h.pc = "login_select" -> LoginSelect(h, du)
    [] h.pc = "change_select" -> ChangeSelect(h, du)
    [] h.pc = "change_update" -> ChangeUpdate(h, du)
    [] OTHER -> [h |-> h, du |-> du]

\* An invocation run to its response with no other statement in between.
RECURSIVE RunAuth(_, _)
RunAuth(h, du) ==
  IF h.pc = "done" \/ h.pc = "idle" THEN [h |-> h, du |-> du]
  ELSE LET o == AuthStep(h, du) IN RunAuth(o.h, o.du)

-----------------------------------------------------------------------------
(* Browser client (script.js): event store and views *)

\* toDateKey(new Date()): the page is open on the first day of the demo data.
TodayKey == DateKeyOrder[1]

\* An event object of the store. oid stands for the object's identity;
\* origin is a ghost: "stub", "ui", or the user it was fetched for.
MemEvent(oid, w, origin) ==
  [oid |-> oid, title |-> w.title, start |-> w.start, end |-> w.end,
   allDay |-> w.allDay, color |-> w.color, origin |-> origin]

\* JSON.stringify of an event object.
ToWire(ev) == WireEvent(ev.title, ev.start, ev.end, ev.allDay, ev.color)

\* The STUB_EVENTS literal.
StubList(k) ==
  CASE k = "2025-08-18" ->
         << WireEvent("Garbage, grey bin", "00:00", "23:59", TRUE, ACCENT),
            WireEvent("Discovery Day", "00:00", "23:59", TRUE, ACCENT),
            WireEvent("Team sync", "09:00", "10:00", FALSE, ACCENT),
            WireEvent("Pick up groceries", "15:00", "16:00", FALSE, ACCENT) >>
    [] k = "2025-08-19" ->
         << WireEvent("Project review", "14:00", "15:00", FALSE, ACCENT) >>
    [] k = "2025-08-20" ->
         << WireEvent("Dentist Appointment", "11:30", "12:30", FALSE, ACCENT),
            WireEvent("Yoga class", "18:00", "19:00", FALSE, ACCENT) >>
    [] OTHER -> <<>>

\* Number of events under the date keys before position i of DateKeyOrder.
RECURSIVE CountBefore(_, _)
CountBefore(m, i) ==
  IF i <= 1 THEN 0
  ELSE CountBefore(m, i - 1)
       + (IF m[DateKeyOrder[i - 1]].has THEN Len(m[DateKeyOrder[i - 1]].evs) ELSE 0)

\* Fresh event objects for a mapping of wire events: the j-th new object gets
\* the j-th identity of ids.
Materialize(m, ids, origin) ==
  [k \in DateKeys |->
     IF m[k].has
     THEN Bucket([j \in 1..Len(m[k].evs) |->
                    MemEvent(ids[CountBefore(m, DayOf(k)) + j], m[k].evs[j], origin)])
     ELSE NoBucket]

StubMap == [k \in DateKeys |-> IF Len(StubList(k)) > 0 THEN Bucket(StubList(k)) ELSE NoBucket]
StubStore == Materialize(StubMap, [j \in 1..CountBefore(StubMap, Len(DateKeyOrder) + 1) |-> j], "stub")

\* Object.keys(STUB_EVENTS).forEach(k => delete STUB_EVENTS[k])
EmptyStore == [k \in DateKeys |-> NoBucket]

\* JSON.stringify(STUB_EVENTS)
WireStore(st) ==
  [k \in DateKeys |->
     [has |-> st[k].has, evs |-> [j \in 1..Len(st[k].evs) |-> ToWire(st[k].evs[j])]]]

ObjectsOf(st) == UNION {{st[k].evs[j] : j \in 1..Len(st[k].evs)} : k \in DateKeys}
OriginsOf(st) == {ev.origin : ev \in ObjectsOf(st)}

\* Identities not in use by the store or by the rendered planner.
RECURSIVE FreshIds(_, _, _)
FreshIds(n, used, from) ==
  IF n = 0 THEN <<>>
  ELSE IF from \in used THEN FreshIds(n, used, from + 1)
  ELSE <<from>> \o FreshIds(n - 1, used, from + 1)

UsedIds(st, vw) == {ev.oid : ev \in ObjectsOf(st)} \cup {vw.items[j].oid : j \in 1..Len(vw.items)}

\* Mutant of Overlay: the loaded mapping replaces the whole store.
OverlayAll(st, loaded) == loaded

\* loadEvents, lines 289-295: Object.keys(data.events).forEach(k => STUB_EVENTS[k] = data.events[k])
Overlay(st, loaded) == [k \in DateKeys |-> IF loaded[k].has THEN loaded[k] ELSE st[k]]

\* a.start.localeCompare(b.start): position in the lexicographic order of
\* the time texts that occur.
LexOrder == <<"00:00", "08:30", "09:00", "11:30", "14:00", "15:00", "18:00", "9:30">>
LexRank(t) == CHOOSE i \in 1..Len(LexOrder) : LexOrder[i] = t

\* timedEvents.sort((a, b) => a.start.localeCompare(b.start)): stable.
RECURSIVE InsertSorted(_, _)
InsertSorted(sorted, ev) ==
  IF sorted = <<>> THEN <<ev>>
  ELSE IF LexRank(Head(sorted).start) <= LexRank(ev.start)
       THEN <<Head(sorted)>> \o InsertSorted(Tail(sorted), ev)
       ELSE <<ev>> \o sorted

RECURSIVE SortByStart(_)
SortByStart(evs) ==
  IF evs = <<>> THEN <<>>
  ELSE InsertSorted(SortByStart(SubSeq(evs, 1, Len(evs) - 1)), evs[Len(evs)])

\* Mutant of PlannerItems: the timed items are left in stored order.
PlannerItemsUnsorted(st, key) ==
  LET evs == st[key].evs IN
  SelectSeq(evs, LAMBDA ev : ev.allDay) \o SelectSeq(evs, LAMBDA ev : ~ev.allDay)

\* renderPlanner: the all-day chips, then the timed items sorted by start.
PlannerItems(st, key) ==
  LET evs == st[key].evs IN
  SelectSeq(evs, LAMBDA ev : ev.allDay) \o SortByStart(SelectSeq(evs, LAMBDA ev : ~ev.allDay))

\* Mutant of CalendarDots: the dots are made from the last three events.
CalendarDotsLastThree(st) ==
  [k \in DateKeys |->
     IF st[k].has
     THEN LET n == Len(st[k].evs)
              first == IF n < 3 THEN 1 ELSE n - 2
          IN [j \in 1..(n - first + 1) |->
                IF Falsy(st[k].evs[first + j - 1].color) THEN "var(--accent)"
                ELSE st[k].evs[first + j - 1].color]
     ELSE <<>>]

\* renderCalendar: per cell at most three dots, in the events' colors.
CalendarDots(st) ==
  [k \in DateKeys |->
     IF st[k].has
     THEN [j \in 1..(IF Len(st[k].evs) < 3 THEN Len(st[k].evs) ELSE 3) |->
             IF Falsy(st[k].evs[j].color) THEN "var(--accent)" ELSE st[k].evs[j].color]
     ELSE <<>>]

\* renderCalendar() and renderPlanner()
Render(st, key) ==
  [rendered |-> TRUE, pkey |-> key, items |-> PlannerItems(st, key),
   dots |-> CalendarDots(st)]

\* No run of the add handler so far.
NoAdd == [ok |-> FALSE, key |-> TodayKey, before |-> EmptyStore, after |-> EmptyStore]

NoView == [rendered |-> FALSE, pkey |-> TodayKey, items |-> <<>>,
           dots |-> [k \in DateKeys |-> <<>>]]

-----------------------------------------------------------------------------
(* Browser client: requests in flight *)

Msg(kind, user) ==
  [kind |-> kind, stage |-> "req", user |-> user, action |-> Null,
   password |-> Null, newPassword |-> Null, status |-> 0, body |-> EmptyMap,
   payload |-> EmptyMap, late |-> FALSE, existed |-> FALSE, origins |-> {}]

\* remoteAuth, lines 217-227: an empty password is left out of the body.
AuthReq(action, user, password, newPassword) ==
  [Msg("auth", user) EXCEPT
     !.action = action,
     !.password = IF Falsy(password) THEN Null ELSE password,
     !.newPassword = IF Falsy(newPassword) THEN Null ELSE newPassword]

\* loadEvents(user), lines 280-300 (remote mode): the fetch it starts.
LoadReq(user) == IF user = Null THEN <<>> ELSE <<Msg("load", user)>>

\* saveEvents(user), lines 322-336 (remote mode): the fetch it starts.
SaveReq(user, st) ==
  IF user = Null THEN <<>>
  ELSE <<[Msg("save", user) EXCEPT !.payload = WireStore(st), !.origins = OriginsOf(st)]>>

\* fetchWeather, line 411: the fetch it starts.
WeatherReq == <<Msg("weather", Null)>>

Without(seq, i) == SubSeq(seq, 1, i - 1) \o SubSeq(seq, i + 1, Len(seq))

\* Date objects at local midnight are modelled by their day number, the days
\* since 1970-01-01 (a Thursday); months count from 0 as in the Date API.
IsLeapYear(y) == (y % 4 = 0 /\ y % 100 # 0) \/ y % 400 = 0

DaysInMonth(y, m) ==
  CASE m = 1 -> IF IsLeapYear(y) THEN 29 ELSE 28
    [] m \in {3, 5, 8, 10} -> 30
    [] OTHER -> 31

DayFromYear(y) ==
  365 * (y - 1970) + ((y - 1969) \div 4) - ((y - 1901) \div 100) + ((y - 1601) \div 400)

RECURSIVE DaysBeforeMonth(_, _)
DaysBeforeMonth(y, m) ==
  IF m = 0 THEN 0 ELSE DaysBeforeMonth(y, m - 1) + DaysInMonth(y, m - 1)

\* new Date(year, month, date): a month outside 0..11 and a date outside the
\* month carry into the neighbouring months and years.
MakeDay(year, month, date) ==
  LET ym == year + (month \div 12)
      mn == month % 12
  IN DayFromYear(ym) + DaysBeforeMonth(ym, mn) + date - 1

\* Date.prototype.getDay: 0 is Sunday.
getDay(t) == (t + 4) % 7

\* The civil date of a day number, <<year, month, day of the month>>: the
\* days are counted from 0000-03-01 in eras of 400 years (146097 days).
CivilOf(t) ==
  LET z == t + 719468
      era == z \div 146097
      doe == z - era * 146097
      yoe == (doe - (doe \div 1460) + (doe \div 36524) - (doe \div 146096)) \div 365
      doy == doe - (365 * yoe + (yoe \div 4) - (yoe \div 100))
      mp == (5 * doy + 2) \div 153
      m == IF mp < 10 THEN mp + 2 ELSE mp - 10
  IN <<yoe + era * 400 + (IF m <= 1 THEN 1 ELSE 0), m, doy - ((153 * mp + 2) \div 5) + 1>>

\* Date.prototype.getFullYear and getMonth.
MonthOf(t) == <<CivilOf(t)[1], CivilOf(t)[2]>>

\* Date.prototype.getDate: the day of the month.
getDate(t) == CivilOf(t)[3]

\* Mutant of buildCalendarDates: the grid is completed to five weeks.
buildCalendarDatesFiveWeeks(year, month) ==
  LET startDay == getDay(MakeDay(year, month, 1))
      daysInPrevMonth == getDate(MakeDay(year, month, 0))
      daysInMonth == getDate(MakeDay(year, month + 1, 0))
      nextDays == 35 - (startDay + daysInMonth)
  IN [j \in 1..startDay |-> MakeDay(year, month - 1, daysInPrevMonth - (startDay - j))]
     \o [d \in 1..daysInMonth |-> MakeDay(year, month, d)]
     \o [n \in 1..nextDays |-> MakeDay(year, month + 1, n)]

\* buildCalendarDates, lines 543-563.
buildCalendarDates(year, month) ==
  LET firstOfMonth == MakeDay(year, month, 1)
      startDay == getDay(firstOfMonth)
      daysInPrevMonth == getDate(MakeDay(year, month, 0))
      \* the loop over i = startDay - 1 .. 0 pushes its j-th date for i = startDay - j
      trailing == [j \in 1..startDay |->
                     MakeDay(year, month - 1, daysInPrevMonth - (startDay - j))]
      daysInMonth == getDate(MakeDay(year, month + 1, 0))
      current == [d \in 1..daysInMonth |-> MakeDay(year, month, d)]
      nextDays == 42 - (startDay + daysInMonth)
      leading == [n \in 1..nextDays |-> MakeDay(year, month + 1, n)]
  IN trailing \o current \o leading

\* No month has been rendered.
NoGrid == [year |-> 0, month |-> 0, dates |-> <<>>]

ClientPageInit ==
  /\ currentUser = Null
  /\ marker = Null
  /\ users = [u \in Users |-> Null]
  /\ store = StubStore
  /\ dashboardInitialized = FALSE
  /\ authVisible = TRUE
  /\ dashVisible = FALSE
  /\ menuVisible = FALSE
  /\ authForm = "login"
  /\ alertMsg = Null
  /\ selectedDate = TodayKey
  /\ view = NoView
  /\ listeners = 0
  /\ net = <<>>
  /\ signedUp = {}
  /\ unsaved = FALSE
  /\ saveLost = FALSE
  /\ nSubmit = 0
  /\ nMut = 0
  /\ nFail = 0
  /\ nSel = 0
  /\ nNoop = 0
  /\ lastAdd = NoAdd

-----------------------------------------------------------------------------
(* Browser client: weather *)

\* DEFAULT_LAT, DEFAULT_LON and the default name, lines 128-129 and 350.
DefaultPlace == "44.2312,-76.4860"
DefaultName == "Kingston, ON"

\* state.forecast as the script starts ([]), when data.daily is missing
\* (undefined), from the provider and from fallbackWeather.
EmptyForecast == [kind |-> "empty", place |-> Null, time |-> <<>>]
UndefinedForecast == [kind |-> "undefined", place |-> Null, time |-> <<>>]

\* state.currentWeather before the first assignment and when
\* data.current_weather is missing.
UndefinedWeather == [defined |-> FALSE, place |-> Null, temperature |-> 0, weathercode |-> 0]

\* 'YYYY-MM-DD' of a day number, as <<year, month, day>>.
DateText(t) == <<MonthOf(t)[1], MonthOf(t)[2] + 1, getDate(t)>>

\* d.toISOString().split('T')[0] of the Date at local midnight of day t, in
\* a zone tz minutes ahead of UTC: the date in UTC of that instant.
IsoDateOfLocalMidnight(t, tz) == DateText((t * 1440 - tz) \div 1440)

\* fallbackWeather, lines 500-528: what it assigns to state.
fallbackWeather(now) ==
  LET y == MonthOf(now.day)[1]
      m == MonthOf(now.day)[2]
      dd == getDate(now.day)
      d(i) == MakeDay(y, m, dd + i)
      dummyTimes == [j \in 1..7 |-> IsoDateOfLocalMidnight(d(j - 1), now.tz)]
      maxTemps == [j \in 1..7 |-> 70 + (j - 1)]
      codes == [j \in 1..7 |-> <<1, 2, 3, 80, 0, 61, 95>>[((j - 1) % 7) + 1]]
  IN [forecast |-> [kind |-> "fallback", place |-> Null, time |-> dummyTimes],
      currentWeather |-> [defined |-> TRUE, place |-> Null, temperature |-> maxTemps[1],
                          weathercode |-> codes[1]],
      locationName |-> DefaultName]

\* The ways a request to the weather provider can end.
WeatherOutcomes ==
  {"rejected", "status", "notjson", "nodaily", "nocurrent", "neither", "valid"}

\* The daily part of the provider's answer for a place: arrays of 7 days.
Daily(place, now) ==
  [kind |-> "daily", place |-> place, time |-> [j \in 1..7 |-> DateText(now.day + j - 1)]]

\* The parsed body of a JSON answer.
WeatherBody(outcome, place, now) ==
  [daily |-> IF outcome \in {"valid", "nocurrent"} THEN Daily(place, now)
             ELSE UndefinedForecast,
   current_weather |-> IF outcome \in {"valid", "nodaily"}
                       THEN [defined |-> TRUE, place |-> place, temperature |-> 20,
                             weathercode |-> 3]
                       ELSE UndefinedWeather]

\* Requests of fetchWeather (line 409: the coordinates are read at the call)
\* and of geocode.
WeatherFetch(place) == [kind |-> "weather", place |-> place, input |-> Null]
GeoFetch(name) == [kind |-> "geo", place |-> Null, input |-> name]

\* The texts typed at the location prompt (Null: cancelled).
LocationInputs == {Null, "45.5,-73.6", "Toronto", " N "}

\* Lines 917-922: the coordinates of a text of the form lat,lon, else Null.
ParseLatLon(text) == IF text = "45.5,-73.6" THEN text ELSE Null

\* Line 923: `${lat.toFixed(4)}, ${lon.toFixed(4)}`.
LatLonName(place) == IF place = "45.5,-73.6" THEN "45.5000, -73.6000" ELSE place

\* geocode, lines 961-967: the first result for a name.
Geocoded(name) ==
  IF name = "Toronto" THEN [place |-> "43.7001,-79.4163", name |-> "Toronto, CA"]
  ELSE [place |-> "46.8123,-71.2145", name |-> "N, CA"]

\* The weather part of the state as the script starts, lines 345-358.
WeatherIdle ==
  /\ location = DefaultPlace
  /\ locationName = DefaultName
  /\ forecast = EmptyForecast
  /\ currentWeather = UndefinedWeather
  /\ nLoc = 0
  /\ applied = <<>>

ClientInit ==
  /\ ClientPageInit /\ grid = NoGrid
  /\ WeatherIdle /\ wnet = <<>>
  /\ clock = [day |-> MakeDay(2025, 7, 18), hour |-> 12, tz |-> 0]

-----------------------------------------------------------------------------
(* The event service on its own: requests arrive from any client, and the  *)
(* statements of concurrently running invocations interleave.              *)

\* Request bodies the service is sent.
EvX == WireEvent("X", "09:00", "10:00", FALSE, Null)
EvY == WireEvent("Y", "00:00", "23:59", TRUE, "#FF0000")
EvZ == WireEvent("Z", "11:30", "12:30", FALSE, Blank)
EvNoTitle == WireEvent(Null, "09:00", "10:00", FALSE, Null)
Day1 == DateKeyOrder[1]
Day2 == DateKeyOrder[2]
MapOf1(k, list) == [EmptyMap EXCEPT ![k] = Bucket(list)]
MapOf2(k1, l1, k2, l2) == [EmptyMap EXCEPT ![k1] = Bucket(l1), ![k2] = Bucket(l2)]
SvcPayloads ==
  { MapPayload(EmptyMap),
    MapPayload(MapOf1(Day1, <<EvX>>)),
    MapPayload(MapOf1(Day1, <<EvY, EvZ>>)),
    MapPayload(MapOf2(Day1, <<EvX>>, Day2, <<EvY>>)),
    MapPayload(MapOf1(Day1, <<>>)),
    MapPayload(MapOf1(Day1, <<EvX, EvNoTitle>>)),
    Payload("map", MapOf2(Day1, <<EvX>>, Day2, <<>>), {Day2}),
    Payload("null", EmptyMap, {}),
    NoPayload,
    Payload("badjson", EmptyMap, {}) }

Running(h) == h.pc \notin {"idle", "done"}
NoAuthGhost == [alone |-> FALSE, preUsers |-> <<>>]
NoSettled == [ok |-> FALSE, map |-> EmptyMap]
NoGhost ==
  [solo |-> FALSE, alone |-> FALSE, e0 |-> 0, quiet |-> NoSettled,
   preUsers |-> <<>>, preEvents |-> <<>>]

SvcInit ==
  /\ dbUsers = <<>>
  /\ dbEvents = <<>>
  /\ srv = [r \in Slots |-> IdleHandler]
  /\ gh = [r \in Slots |-> NoGhost]
  /\ nReq = 0
  /\ epoch = [u \in Users |-> 0]
  /\ settled = [u \in Users |-> NoSettled]
  /\ asrv = [r \in Slots |-> IdleAuth]
  /\ agh = [r \in Slots |-> NoAuthGhost]
  /\ ClientInit

\* A request reaches the function: a new invocation starts in a free slot.
SvcReceive(r, method, user, payload) ==
  /\ ~Running(srv[r])
  /\ \A q \in Slots : q < r => Running(srv[q])
  /\ nReq < MaxRequests
  /\ nReq' = nReq + 1
  /\ LET h == Receive(method, user, payload)
         isPost == Running(h) /\ method = "POST"
         others == {q \in Slots \ {r} : Running(srv[q])}
         rivals == {q \in others : srv[q].method = "POST" /\ srv[q].user = user}
     IN /\ srv' = [srv EXCEPT ![r] = h]
        /\ gh' = [q \in Slots |->
                    IF q = r
                    THEN [solo |-> rivals = {}, alone |-> others = {},
                          e0 |-> IF user \in Users THEN epoch[user] ELSE 0,
                          quiet |-> IF user \in Users THEN settled[user] ELSE NoSettled,
                          preUsers |-> dbUsers, preEvents |-> dbEvents]
                    ELSE [gh[q] EXCEPT
                            !.alone = @ /\ ~Running(h),
                            !.solo = @ /\ ~(q \in rivals /\ isPost)]]
        /\ epoch' = IF isPost THEN [epoch EXCEPT ![user] = @ + 1] ELSE epoch
        /\ settled' = IF isPost THEN [settled EXCEPT ![user] = NoSettled] ELSE settled
  /\ UNCHANGED <<dbUsers, dbEvents, asrv, agh, clientVars, widgetVars>>

\* The database executes the statement invocation r is waiting for.
SvcApply(r, o) ==
  /\ srv' = [srv EXCEPT ![r] = o.h]
  /\ dbUsers' = o.du
  /\ dbEvents' = o.de
  /\ settled' =
       IF o.h.pc = "done" /\ o.h.method = "POST" /\ o.h.status = 200 /\ gh[r].solo
       THEN [settled EXCEPT ![o.h.user] = [ok |-> TRUE, map |-> o.h.payload.map]]
       ELSE settled
  /\ UNCHANGED <<nReq, gh, epoch, asrv, agh, clientVars, widgetVars>>

SvcGetSelectUser(r) ==
  srv[r].pc = "get_user" /\ SvcApply(r, GetSelectUser(srv[r], dbUsers, dbEvents))
SvcGetSelectEvents(r) ==
  srv[r].pc = "get_events" /\ SvcApply(r, GetSelectEvents(srv[r], dbUsers, dbEvents))
SvcPostSelectUser(r) ==
  srv[r].pc = "post_user" /\ SvcApply(r, PostSelectUser(srv[r], dbUsers, dbEvents))
SvcPostInsertUser(r) ==
  srv[r].pc = "post_newuser" /\ SvcApply(r, PostInsertUser(srv[r], dbUsers, dbEvents))
SvcPostDeleteEvents(r) ==
  srv[r].pc = "post_delete" /\ SvcApply(r, PostDeleteEvents(srv[r], dbUsers, dbEvents))
SvcPostInsertEvent(r) ==
  srv[r].pc = "post_insert" /\ SvcApply(r, PostInsertEvent(srv[r], dbUsers, dbEvents))

SvcNext ==
  \/ \E r \in Slots :
       \/ \E u \in Users \cup {Null} : SvcReceive(r, "GET", u, NoPayload)
       \/ SvcReceive(r, "PUT", Null, NoPayload)
       \/ SvcReceive(r, "POST", Null, MapPayload(EmptyMap))
       \/ \E u \in Users, p \in SvcPayloads : SvcReceive(r, "POST", u, p)
  \/ \E r \in Slots : SvcGetSelectUser(r)
  \/ \E r \in Slots : SvcGetSelectEvents(r)
  \/ \E r \in Slots : SvcPostSelectUser(r)
  \/ \E r \in Slots : SvcPostInsertUser(r)
  \/ \E r \in Slots : SvcPostDeleteEvents(r)
  \/ \E r \in Slots : SvcPostInsertEvent(r)

SpecEventSvc == SvcInit /\ [][SvcNext]_vars

(***************************************************************************)
(* The account service under concurrent requests: every awaited statement  *)
(* of auth.js is one step, and the steps of different invocations          *)
(* interleave.  The database starts with the record alice/pw1.             *)
(***************************************************************************)
AuthPasswords == Passwords \cup {Blank, Null}
ChangePairs ==
  { <<"pw1", "pw2">>, <<"pw2", "pw1">>, <<"pw1", "pw1">>, <<"pw1", Null>>,
    <<Null, "pw2">>, <<Blank, "pw2">>, <<"pw1", Blank>> }
AuthBodies ==
  { AuthBody(a, u, p, Null) : a \in {"signup", "login"}, u \in Users, p \in AuthPasswords }
  \cup { AuthBody("changePassword", u, pp[1], pp[2]) : u \in Users, pp \in ChangePairs }
  \cup { AuthBody(Null, "alice", "pw1", Null), AuthBody("login", Null, "pw1", Null),
         AuthBody("login", Blank, "pw1", Null), AuthBody("reset", "alice", "pw1", Null) }
AuthCalls ==
  { <<"POST", b>> : b \in AuthBodies } \cup { <<"GET", AuthBody("login", "alice", "pw1", Null)>> }
  \cup { <<"POST", BadBody>>, <<"POST", NullBody>>, <<"POST", NoBody>> }

\* A request reaches the function: a new invocation starts in a free slot.
AuthSvcReceive(r, method, body) ==
  /\ ~Running(asrv[r])
  /\ \A q \in Slots : q < r => Running(asrv[q])
  /\ nReq < MaxRequests
  /\ nReq' = nReq + 1
  /\ LET h == AuthReceive(method, body)
         others == {q \in Slots \ {r} : Running(asrv[q])}
     IN /\ asrv' = [asrv EXCEPT ![r] = h]
        /\ agh' = [q \in Slots |->
                    IF q = r
                    THEN [alone |-> others = {}, preUsers |-> dbUsers]
                    ELSE [agh[q] EXCEPT !.alone = @ /\ ~Running(h)]]
  /\ UNCHANGED <<dbUsers, dbEvents, srv, gh, epoch, settled, clientVars, widgetVars>>

\* The database executes the statement invocation r is waiting for.
AuthSvcApply(r, o) ==
  /\ asrv' = [asrv EXCEPT ![r] = o.h]
  /\ dbUsers' = o.du
  /\ UNCHANGED <<dbEvents, srv, nReq, gh, epoch, settled, agh, clientVars, widgetVars>>

AuthSvcSignupSelect(r) ==
  asrv[r].pc = "signup_select" /\ AuthSvcApply(r, SignupSelect(asrv[r], dbUsers))
AuthSvcSignupInsert(r) ==
  asrv[r].pc = "signup_insert" /\ AuthSvcApply(r, SignupInsert(asrv[r], dbUsers))
AuthSvcLoginSelect(r) ==
  asrv[r].pc = "login_select" /\ AuthSvcApply(r, LoginSelect(asrv[r], dbUsers))
AuthSvcChangeSelect(r) ==
  asrv[r].pc = "change_select" /\ AuthSvcApply(r, ChangeSelect(asrv[r], dbUsers))
AuthSvcChangeUpdate(r) ==
  asrv[r].pc = "change_update" /\ AuthSvcApply(r, ChangeUpdate(asrv[r], dbUsers))

\* Lines 82-85: the statement invocation r is waiting for fails (the
\* database is unreachable or rejects it) and the catch answers 500.
AuthSvcDbFails(r) ==
  /\ Running(asrv[r])
  /\ AuthSvcApply(r, [h |-> AuthRespond(asrv[r], 500), du |-> dbUsers])

AuthSvcNext ==
  \/ \E r \in Slots, c \in AuthCalls : AuthSvcReceive(r, c[1], c[2])
  \/ \E r \in Slots : AuthSvcSignupSelect(r)
  \/ \E r \in Slots : AuthSvcSignupInsert(r)
  \/ \E r \in Slots : AuthSvcLoginSelect(r)
  \/ \E r \in Slots : AuthSvcChangeSelect(r)
  \/ \E r \in Slots : AuthSvcChangeUpdate(r)

-----------------------------------------------------------------------------
(* Browser client: authInit's handlers, in remote mode                     *)
(* (USE_REMOTE_STORAGE = true, line 201)                                    *)

\* alert() blocks the page's script until the user dismisses it.
Unblocked == alertMsg = Null

DismissAlert ==
  /\ alertMsg # Null
  /\ alertMsg' = Null
  /\ UNCHANGED <<dbVars, svcVars, widgetVars, currentUser, marker, users, dashboardInitialized,
                 authVisible, dashVisible, menuVisible, authForm, listeners, signedUp,
                 store, selectedDate, view, net, unsaved, saveLost, nSubmit, nMut, nFail, nSel, nNoop, lastAdd>>

\* value.trim() and newTitle.trim() of the texts typed in the model: the
\* user names and passwords have no space around them.
Trim(x) ==
  CASE x = "  " -> Blank
    [] x = " N " -> "N"
    [] OTHER -> x

FormInputs == Users \cup {Blank, "  "}
PasswordInputs == Passwords \cup {Blank}

\* Mutant of EnterAfterLogin: every login runs the full initialisation.
EnterAfterLoginAlwaysInit(u, rest) ==
  /\ marker' = u
  /\ currentUser' = u
  /\ authVisible' = FALSE
  /\ dashVisible' = TRUE
  /\ menuVisible' = TRUE
  /\ dashboardInitialized' = TRUE
  /\ unsaved' = FALSE
  /\ store' = store
  /\ net' = rest \o LoadReq(u) \o SaveReq(u, store)
                 \o LoadReq(u) \o SaveReq(u, store) \o WeatherReq
  /\ view' = view

\* Lines 1161-1181: the success part of the login handler.
EnterAfterLogin(u, rest) ==
  /\ marker' = u
  /\ currentUser' = u
  /\ authVisible' = FALSE
  /\ dashVisible' = TRUE
  /\ menuVisible' = TRUE
  /\ dashboardInitialized' = TRUE
  /\ unsaved' = FALSE
  /\ IF ~dashboardInitialized
     THEN \* loadEvents, saveEvents, then init(): loadEvents, saveEvents, fetchWeather
          /\ store' = store
          /\ net' = rest \o LoadReq(u) \o SaveReq(u, store)
                         \o LoadReq(u) \o SaveReq(u, store) \o WeatherReq
          /\ view' = view
     ELSE /\ store' = EmptyStore
          /\ net' = rest \o LoadReq(u) \o SaveReq(u, EmptyStore)
          /\ view' = Render(EmptyStore, selectedDate)

\* Mutant of EnterAfterSignup: the session marker is not written.
EnterAfterSignupNoMarker(u, rest) ==
  /\ marker' = marker
  /\ currentUser' = u
  /\ store' = EmptyStore
  /\ authVisible' = FALSE
  /\ dashVisible' = TRUE
  /\ menuVisible' = TRUE
  /\ dashboardInitialized' = TRUE
  /\ unsaved' = FALSE
  /\ IF ~dashboardInitialized
     THEN \* saveEvents, then init(): loadEvents, saveEvents, fetchWeather
          /\ net' = rest \o SaveReq(u, EmptyStore)
                         \o LoadReq(u) \o SaveReq(u, EmptyStore) \o WeatherReq
          /\ view' = view
     ELSE /\ net' = rest \o SaveReq(u, EmptyStore)
          /\ view' = Render(EmptyStore, selectedDate)

\* Lines 1230-1248: the success part of the signup handler.
EnterAfterSignup(u, rest) ==
  /\ marker' = u
  /\ currentUser' = u
  /\ store' = EmptyStore
  /\ authVisible' = FALSE
  /\ dashVisible' = TRUE
  /\ menuVisible' = TRUE
  /\ dashboardInitialized' = TRUE
  /\ unsaved' = FALSE
  /\ IF ~dashboardInitialized
     THEN \* saveEvents, then init(): loadEvents, saveEvents, fetchWeather
          /\ net' = rest \o SaveReq(u, EmptyStore)
                         \o LoadReq(u) \o SaveReq(u, EmptyStore) \o WeatherReq
          /\ view' = view
     ELSE /\ net' = rest \o SaveReq(u, EmptyStore)
          /\ view' = Render(EmptyStore, selectedDate)

\* Lines 1114-1117: the links that switch the form.
ShowAuthForm(f) ==
  /\ Unblocked /\ authVisible
  /\ authForm # f
  /\ authForm' = f
  /\ UNCHANGED <<dbVars, svcVars, widgetVars, currentUser, marker, users, dashboardInitialized,
                 authVisible, dashVisible, menuVisible, alertMsg, listeners, signedUp,
                 store, selectedDate, view, net, unsaved, saveLost, nSubmit, nMut, nFail, nSel, nNoop, lastAdd>>

\* What a handler that only alerts leaves alone.
OnlyAlert(text) ==
  /\ alertMsg' = text
  /\ UNCHANGED <<dbVars, svcVars, widgetVars, currentUser, marker, users, dashboardInitialized,
                 authVisible, dashVisible, menuVisible, authForm, listeners, signedUp,
                 store, selectedDate, view, unsaved, saveLost, nMut, nFail, nSel, nNoop, lastAdd>>

\* What sending the auth request of a submission changes.
SendAuth(req) ==
  /\ nSubmit < MaxSubmits
  /\ Len(net) <= MaxCarried
  /\ Cardinality({i \in 1..Len(net) : net[i].kind = "auth"}) < MaxAuthPending
  /\ nSubmit' = nSubmit + 1
  /\ net' = Append(net, req)
  /\ UNCHANGED <<dbVars, svcVars, widgetVars, pageVars, store, selectedDate, view, unsaved,
                 saveLost, nMut, nFail, nSel, nNoop, lastAdd>>

\* Lines 1121-1136: the login handler up to its await.
LoginSubmit(typed, p) ==
  LET u == Trim(typed) IN
  /\ Unblocked /\ authVisible /\ authForm = "login"
  /\ IF Falsy(u) \/ Falsy(p)
     THEN OnlyAlert("Please enter a username and password.")
          /\ UNCHANGED <<net, nSubmit>>
     ELSE SendAuth(AuthReq("login", u, p, Null))

\* Lines 1137-1181: the login handler after its await.
LoginResume(i) ==
  LET m == net[i]
      rest == Without(net, i)
      remoteOK == m.status = 200
      localOK == users[m.user] # Null /\ users[m.user] = m.password
  IN /\ Unblocked
     /\ m.kind = "auth" /\ m.stage = "resp" /\ m.action = "login"
     /\ IF ~remoteOK /\ ~localOK
        THEN /\ OnlyAlert("Invalid username or password.")
             /\ net' = rest
             /\ UNCHANGED nSubmit
        ELSE /\ EnterAfterLogin(m.user, rest)
             /\ UNCHANGED <<dbVars, svcVars, widgetVars, users, authForm, alertMsg, listeners,
                            signedUp, selectedDate, saveLost, nSubmit, nMut, nFail, nSel, nNoop, lastAdd>>

\* Mutant of SignupSubmit: the confirmation is not compared.
SignupSubmitUnconfirmed(typed, p, c) ==
  LET u == Trim(typed) IN
  /\ Unblocked /\ authVisible /\ authForm = "signup"
  /\ IF Falsy(u) \/ Falsy(p) \/ Falsy(c)
     THEN OnlyAlert("Please fill out all fields.")
          /\ UNCHANGED <<net, nSubmit>>
     ELSE SendAuth([AuthReq("signup", u, p, Null) EXCEPT !.late = u \in signedUp])

\* Lines 1186-1205: the signup handler up to its await.
SignupSubmit(typed, p, c) ==
  LET u == Trim(typed) IN
  /\ Unblocked /\ authVisible /\ authForm = "signup"
  /\ IF Falsy(u) \/ Falsy(p) \/ Falsy(c)
     THEN OnlyAlert("Please fill out all fields.")
          /\ UNCHANGED <<net, nSubmit>>
     ELSE IF p # c
     THEN OnlyAlert("Passwords do not match.")
          /\ UNCHANGED <<net, nSubmit>>
     ELSE SendAuth([AuthReq("signup", u, p, Null) EXCEPT !.late = u \in signedUp])

\* Lines 1206-1248: the signup handler after its await.
SignupResume(i) ==
  LET m == net[i]
      rest == Without(net, i)
      remoteOK == m.status = 200
  IN /\ Unblocked
     /\ m.kind = "auth" /\ m.stage = "resp" /\ m.action = "signup"
     /\ IF ~remoteOK /\ users[m.user] # Null
        THEN /\ OnlyAlert("User already exists. Please choose another username.")
             /\ net' = rest
             /\ UNCHANGED nSubmit
        ELSE /\ users' = IF remoteOK THEN users ELSE [users EXCEPT ![m.user] = m.password]
             /\ EnterAfterSignup(m.user, rest)
             /\ signedUp' = IF remoteOK THEN signedUp \cup {m.user} ELSE signedUp
             /\ UNCHANGED <<dbVars, svcVars, widgetVars, authForm, alertMsg, listeners,
                            selectedDate, saveLost, nSubmit, nMut, nFail, nSel, nNoop, lastAdd>>

\* Lines 1253-1278: the forgot-password handler up to the remoteAuth call.
ForgotSubmit(typed, p, c) ==
  LET u == Trim(typed) IN
  /\ Unblocked /\ authVisible /\ authForm = "forgot"
  /\ IF Falsy(u) \/ Falsy(p) \/ Falsy(c)
     THEN OnlyAlert("Please fill out all fields.")
          /\ UNCHANGED <<net, nSubmit>>
     ELSE IF p # c
     THEN OnlyAlert("Passwords do not match.")
          /\ UNCHANGED <<net, nSubmit>>
     ELSE SendAuth(AuthReq("changePassword", u, Blank, p))

\* The error text of an account-service response.
AuthErrorText(status) ==
  CASE status = 400 -> "Missing password parameters"
    [] status = 401 -> "Invalid credentials"
    [] OTHER -> "Failed to fetch"

\* Lines 1270-1277: the callback of the forgot-password request.
ForgotResume(i) ==
  LET m == net[i] IN
  /\ Unblocked
  /\ m.kind = "auth" /\ m.stage = "resp" /\ m.action = "changePassword"
  /\ net' = Without(net, i)
  /\ alertMsg' = IF m.status = 200 THEN "Password reset successful. You can now log in."
                 ELSE AuthErrorText(m.status)
  /\ authForm' = IF m.status = 200 THEN "login" ELSE authForm
  /\ UNCHANGED <<dbVars, svcVars, widgetVars, currentUser, marker, users, dashboardInitialized,
                 authVisible, dashVisible, menuVisible, listeners, signedUp,
                 store, selectedDate, view, unsaved, saveLost, nSubmit, nMut, nFail, nSel, nNoop, lastAdd>>

\* Mutant of Logout: the handler leaves the event store as it is.
LogoutKeepsStore ==
  /\ Unblocked /\ menuVisible /\ dashVisible
  /\ marker' = Null
  /\ currentUser' = Null
  /\ menuVisible' = FALSE
  /\ authVisible' = TRUE
  /\ dashVisible' = FALSE
  /\ authForm' = "login"
  /\ UNCHANGED <<dbVars, svcVars, widgetVars, users, dashboardInitialized, alertMsg, listeners,
                 signedUp, selectedDate, view, net, unsaved, saveLost, nSubmit, nMut,
                 nFail, nSel, nNoop, lastAdd, store>>

\* Lines 1339-1353: the logout handler.
Logout ==
  /\ Unblocked /\ menuVisible /\ dashVisible
  /\ marker' = Null
  /\ currentUser' = Null
  /\ menuVisible' = FALSE
  /\ store' = EmptyStore
  /\ authVisible' = TRUE
  /\ dashVisible' = FALSE
  /\ authForm' = "login"
  /\ UNCHANGED <<dbVars, svcVars, widgetVars, users, dashboardInitialized, alertMsg, listeners,
                 signedUp, selectedDate, view, net, unsaved, saveLost, nSubmit, nMut, nFail, nSel, nNoop, lastAdd>>

-----------------------------------------------------------------------------
(* Browser client: the requests it has in flight, each answered by a whole *)
(* run of the service's handler, or lost on the way                        *)

ClientFrame ==
  UNCHANGED <<svcVars, widgetVars, pageVars, selectedDate, view, nSubmit, nMut, nSel,
              nNoop, lastAdd>>

\* One more request is lost on the network.
Lose ==
  /\ nFail < MaxFailures
  /\ nFail' = nFail + 1

\* The account service answers request i.
ServeAuth(i) ==
  LET m == net[i]
      o == RunAuth(AuthReceive("POST", AuthBody(m.action, m.user, m.password,
                                                m.newPassword)), dbUsers)
  IN /\ m.kind = "auth" /\ m.stage = "req"
     /\ dbUsers' = o.du
     /\ net' = [net EXCEPT ![i] = [m EXCEPT !.stage = "resp", !.status = o.h.status,
                                           !.existed = Len(SelectUser(dbUsers, m.user)) > 0]]
     /\ ClientFrame
     /\ UNCHANGED nFail
     /\ UNCHANGED <<dbEvents, store, unsaved, saveLost>>

\* remoteAuth, lines 228-231: the fetch of request i fails.
FailAuth(i) ==
  LET m == net[i] IN
  /\ m.kind = "auth" /\ m.stage = "req"
  /\ net' = [net EXCEPT ![i] = [m EXCEPT !.stage = "resp", !.status = 0]]
  /\ ClientFrame
  /\ Lose
  /\ UNCHANGED <<dbVars, store, unsaved, saveLost>>

\* The event service answers the GET of loadEvents.
ServeLoad(i) ==
  LET m == net[i]
      o == RunEvents(Receive("GET", m.user, NoPayload), dbUsers, dbEvents)
  IN /\ m.kind = "load" /\ m.stage = "req"
     /\ net' = [net EXCEPT ![i] = [m EXCEPT !.stage = "resp", !.status = o.h.status,
                                           !.body = o.h.body]]
     /\ ClientFrame
     /\ UNCHANGED nFail
     /\ UNCHANGED <<dbVars, store, unsaved, saveLost>>

\* The event service answers the GET of loadEvents with 500: a statement
\* failed and the catch block of lines 107-110 responded.
ErrorLoad(i) ==
  LET m == net[i] IN
  /\ m.kind = "load" /\ m.stage = "req"
  /\ net' = [net EXCEPT ![i] = [m EXCEPT !.stage = "resp", !.status = 500]]
  /\ ClientFrame
  /\ Lose
  /\ UNCHANGED <<dbVars, store, unsaved, saveLost>>

\* loadEvents, lines 296-298: the fetch fails and the store stays as it is.
FailLoad(i) ==
  LET m == net[i] IN
  /\ m.kind = "load" /\ m.stage = "req"
  /\ net' = Without(net, i)
  /\ ClientFrame
  /\ Lose
  /\ UNCHANGED <<dbVars, store, unsaved, saveLost>>

\* loadEvents, lines 288-295: the response is laid over the store, whoever is
\* logged in by now; nothing is rendered.
ApplyLoad(i) ==
  LET m == net[i]
      n == CountBefore(m.body, Len(DateKeyOrder) + 1)
      loaded == Materialize(m.body, FreshIds(n, UsedIds(store, view), 1), m.user)
  IN /\ Unblocked
     /\ m.kind = "load" /\ m.stage = "resp"
     /\ net' = Without(net, i)
     /\ store' = IF m.status = 200 THEN Overlay(store, loaded) ELSE store
     /\ unsaved' = (unsaved \/ store' # store)
     /\ ClientFrame
     /\ UNCHANGED nFail
     /\ UNCHANGED <<dbVars, saveLost>>

\* The event service processes the POST of saveEvents; the client ignores
\* the response.
ServeSave(i) ==
  LET m == net[i]
      o == RunEvents(Receive("POST", m.user, MapPayload(m.payload)), dbUsers, dbEvents)
  IN /\ m.kind = "save" /\ m.stage = "req"
     /\ dbUsers' = o.du
     /\ dbEvents' = o.de
     /\ net' = Without(net, i)
     /\ saveLost' = (saveLost \/ o.h.status # 200)
     /\ ClientFrame
     /\ UNCHANGED nFail
     /\ UNCHANGED <<store, unsaved>>

\* Mutant of FailSave: the failed request is sent again.
FailSaveRetries(i) ==
  LET m == net[i] IN
  /\ m.kind = "save" /\ m.stage = "req"
  /\ net' = Append(Without(net, i), m)
  /\ saveLost' = TRUE
  /\ ClientFrame
  /\ Lose
  /\ UNCHANGED <<dbVars, store, unsaved>>

\* saveEvents, lines 326-334: the POST does not reach the tables, because the
\* fetch is rejected (the catch logs) or because the service answers 500
\* before writing a row (the response is never looked at).
FailSave(i) ==
  LET m == net[i] IN
  /\ m.kind = "save" /\ m.stage = "req"
  /\ net' = Without(net, i)
  /\ saveLost' = TRUE
  /\ ClientFrame
  /\ Lose
  /\ UNCHANGED <<dbVars, store, unsaved>>

\* Mutant of WeatherSettle: the views are rendered, the listeners are not
\* attached.
WeatherSettleNoListeners(i) ==
  LET m == net[i] IN
  /\ Unblocked
  /\ m.kind = "weather"
  /\ net' = Without(net, i)
  /\ view' = Render(store, selectedDate)
  /\ UNCHANGED <<dbVars, svcVars, widgetVars, currentUser, marker, users, dashboardInitialized,
                 authVisible, dashVisible, menuVisible, authForm, alertMsg, signedUp, listeners,
                 store, selectedDate, unsaved, saveLost, nSubmit, nMut, nFail, nSel, nNoop, lastAdd>>

\* init, lines 986-992: fetchWeather settles (with data or with the fallback),
\* then the views are rendered and the listeners attached.
WeatherSettle(i) ==
  LET m == net[i] IN
  /\ Unblocked
  /\ m.kind = "weather"
  /\ net' = Without(net, i)
  /\ view' = Render(store, selectedDate)
  /\ listeners' = listeners + 1
  /\ UNCHANGED <<dbVars, svcVars, widgetVars, currentUser, marker, users, dashboardInitialized,
                 authVisible, dashVisible, menuVisible, authForm, alertMsg, signedUp,
                 store, selectedDate, unsaved, saveLost, nSubmit, nMut, nFail, nSel, nNoop, lastAdd>>

-----------------------------------------------------------------------------
(* Browser client: calendar and planner handlers *)

\* What a handler of the planner leaves alone.
PlannerFrame ==
  UNCHANGED <<dbVars, svcVars, widgetVars, pageVars, saveLost, nSubmit, nFail>>

\* Mutant of SaveAndRender: only the list of the selected date is saved.
SaveSelectedDateAndRender(st, name) ==
  /\ nMut < MaxMutations
  /\ Len(net) <= MaxCarried
  /\ nMut' = nMut + 1
  /\ store' = st
  /\ net' = net \o SaveReq(currentUser,
                           [k \in DateKeys |-> IF k = selectedDate THEN st[k] ELSE NoBucket])
  /\ view' = Render(st, selectedDate)
  /\ unsaved' = (currentUser = Null)
  /\ lastAdd' = IF name = "addEvent"
                THEN [ok |-> TRUE, key |-> selectedDate, before |-> store, after |-> st]
                ELSE lastAdd
  /\ UNCHANGED <<selectedDate, nSel, nNoop>>
  /\ PlannerFrame

\* The tail of every handler that changed the store: saveEvents, renderPlanner,
\* renderCalendar.
SaveAndRender(st, name) ==
  /\ nMut < MaxMutations
  /\ Len(net) <= MaxCarried
  /\ nMut' = nMut + 1
  /\ store' = st
  /\ net' = net \o SaveReq(currentUser, st)
  /\ view' = Render(st, selectedDate)
  /\ unsaved' = (currentUser = Null)
  /\ lastAdd' = IF name = "addEvent"
                THEN [ok |-> TRUE, key |-> selectedDate, before |-> store, after |-> st]
                ELSE lastAdd
  /\ UNCHANGED <<selectedDate, nSel, nNoop>>
  /\ PlannerFrame

\* A handler that returned before it touched anything.
NothingDone(name) ==
  /\ nNoop < MaxNoops
  /\ nNoop' = nNoop + 1
  /\ UNCHANGED <<store, net, view, unsaved, selectedDate, nMut, nSel, lastAdd>>
  /\ PlannerFrame

\* Lines 610-616: a click on a calendar cell.
SelectDate(k) ==
  /\ Unblocked /\ dashVisible /\ view.rendered
  /\ k # selectedDate
  /\ nSel < MaxSelects
  /\ Len(net) <= MaxCarried
  /\ nSel' = nSel + 1
  /\ selectedDate' = k
  /\ view' = Render(store, k)
  /\ UNCHANGED <<store, net, unsaved, nMut, nNoop, lastAdd>>
  /\ PlannerFrame

\* timeRange.split('-') of the texts a user may type: nothing, a range, a
\* text with two dashes.
TimeInputs == { <<Blank>>, <<"9:30", "10:00">>, <<"08:30", "09:00", "x">> }

\* Lines 877-900: the add button.
AddEvent(title, parts) ==
  /\ Unblocked /\ dashVisible /\ listeners > 0
  /\ IF Falsy(title) THEN NothingDone("addEvent")
     ELSE LET timed == Len(parts) = 2
              w == IF timed THEN WireEvent(title, parts[1], parts[2], FALSE, ACCENT)
                   ELSE WireEvent(title, "00:00", "23:59", TRUE, ACCENT)
              ev == MemEvent(FreshIds(1, UsedIds(store, view), 1)[1], w, "ui")
              st == [store EXCEPT ![selectedDate] = Bucket(Append(@.evs, ev))]
          IN SaveAndRender(st, "addEvent")

\* Mutant of IndexOf: the position of the first event that has the fields of
\* the object.
IndexOfEqual(evs, oid) ==
  IF \E j \in 1..Len(evs) : evs[j].oid = oid
  THEN LET ev == evs[CHOOSE j \in 1..Len(evs) : evs[j].oid = oid]
       IN CHOOSE j \in 1..Len(evs) :
            /\ ToWire(evs[j]) = ToWire(ev)
            /\ \A n \in 1..(j - 1) : ToWire(evs[n]) # ToWire(ev)
  ELSE 0

\* eventsForDay.indexOf(ev): 0 when the object is not in the list.
IndexOf(evs, oid) ==
  IF \E j \in 1..Len(evs) : evs[j].oid = oid
  THEN CHOOSE j \in 1..Len(evs) : evs[j].oid = oid
  ELSE 0

\* Mutant of Spliced: the first event of the list is removed.
SplicedHead(st, key, oid) ==
  LET evs == st[key].evs
  IN [st EXCEPT ![key] = Bucket(IF Len(evs) > 0 THEN Tail(evs) ELSE evs)]

\* if (idx > -1) eventsForDay.splice(idx, 1); STUB_EVENTS[currentKey] = eventsForDay
Spliced(st, key, oid) ==
  LET evs == st[key].evs
      idx == IndexOf(evs, oid)
  IN [st EXCEPT ![key] = Bucket(IF idx > 0 THEN Without(evs, idx) ELSE evs)]

\* What the title prompt returns: null on Cancel, else the text typed.
PromptInputs == {Null, "  ", " N "}

\* The title the edit handlers write: the trimmed text, when the prompt was
\* not cancelled and the trimmed text is not empty.
NewTitle(input) == IF input = Null THEN Null ELSE Trim(input)

\* eventsForDay[idx].title = newTitle, when the trimmed input is not empty.
Retitled(st, key, oid, input) ==
  LET idx == IndexOf(st[key].evs, oid) IN
  IF ~Falsy(NewTitle(input)) /\ idx > 0
  THEN [st EXCEPT ![key] = Bucket([@.evs EXCEPT ![idx].title = NewTitle(input)])]
  ELSE [st EXCEPT ![key] = Bucket(@.evs)]

\* eventsForDay[idx].start/end = the two parts of a non-empty time input.
Retimed(st, key, oid, parts) ==
  LET idx == IndexOf(st[key].evs, oid) IN
  IF parts # <<Blank>> /\ idx > 0 /\ Len(parts) = 2
  THEN [st EXCEPT ![key] = Bucket([@.evs EXCEPT ![idx].start = parts[1],
                                                ![idx].end = parts[2]])]
  ELSE [st EXCEPT ![key] = Bucket(@.evs)]

\* Lines 661-671 and 741-751: the delete icon of planner item j.
DeleteEvent(j) ==
  /\ Unblocked /\ dashVisible /\ view.rendered
  /\ j \in 1..Len(view.items)
  /\ SaveAndRender(Spliced(store, view.pkey, view.items[j].oid), "deleteEvent")

\* Lines 673-689 and 753-781: the edit icon of planner item j.
EditEvent(j, newTitle, parts) ==
  /\ Unblocked /\ dashVisible /\ view.rendered
  /\ j \in 1..Len(view.items)
  /\ LET ev == view.items[j]
         key == view.pkey
         idx == IndexOf(store[key].evs, ev.oid)
     IN IF ev.allDay
        THEN /\ parts = <<Blank>>
             /\ IF ~Falsy(NewTitle(newTitle)) /\ idx > 0
                THEN SaveAndRender(Retitled(store, key, ev.oid, newTitle), "editEvent")
                ELSE NothingDone("editEvent")
        ELSE SaveAndRender(Retimed(Retitled(store, key, ev.oid, newTitle), key, ev.oid,
                                   parts), "editEvent")

\* Lines 691-711 and 783-811: a click on planner item j itself.
ClickItem(j, del, newTitle, parts) ==
  /\ Unblocked /\ dashVisible /\ view.rendered
  /\ j \in 1..Len(view.items)
  /\ LET ev == view.items[j]
         key == view.pkey
     IN IF del
        THEN /\ newTitle = Null /\ parts = <<Blank>>
             /\ SaveAndRender(Spliced(store, key, ev.oid), "clickItem")
        ELSE IF ev.allDay
        THEN /\ parts = <<Blank>>
             /\ SaveAndRender(Retitled(store, key, ev.oid, newTitle), "clickItem")
        ELSE SaveAndRender(Retimed(Retitled(store, key, ev.oid, newTitle), key, ev.oid,
                                   parts), "clickItem")

-----------------------------------------------------------------------------
(* The page against the two services *)

TitleInputs == {Blank, "N"}

\* A page freshly loaded; the database holds the account alice made earlier
\* and one event of hers.
Init ==
  /\ dbUsers = InsertUser(<<>>, "alice", "pw1")
  /\ dbEvents = <<EventRow(1, Day1, EvX)>>
  /\ srv = [r \in Slots |-> IdleHandler]
  /\ gh = [r \in Slots |-> NoGhost]
  /\ nReq = 0
  /\ epoch = [u \in Users |-> 0]
  /\ settled = [u \in Users |-> NoSettled]
  /\ asrv = [r \in Slots |-> IdleAuth]
  /\ agh = [r \in Slots |-> NoAuthGhost]
  /\ ClientInit

\* The session: the authentication forms, logout, and the requests they start.
Next ==
  \/ DismissAlert
  \/ \E f \in {"login", "signup", "forgot"} : ShowAuthForm(f)
  \/ \E u \in FormInputs, p \in PasswordInputs : LoginSubmit(u, p)
  \/ \E u \in FormInputs, p \in PasswordInputs, c \in PasswordInputs : SignupSubmit(u, p, c)
  \/ \E u \in FormInputs, p \in PasswordInputs, c \in PasswordInputs : ForgotSubmit(u, p, c)
  \/ Logout
  \/ \E i \in 1..Len(net) : LoginResume(i)
  \/ \E i \in 1..Len(net) : SignupResume(i)
  \/ \E i \in 1..Len(net) : ForgotResume(i)
  \/ \E i \in 1..Len(net) : ServeAuth(i)
  \/ \E i \in 1..Len(net) : FailAuth(i)
  \/ \E i \in 1..Len(net) : ServeLoad(i)
  \/ \E i \in 1..Len(net) : ErrorLoad(i)
  \/ \E i \in 1..Len(net) : FailLoad(i)
  \/ \E i \in 1..Len(net) : ApplyLoad(i)
  \/ \E i \in 1..Len(net) : ServeSave(i)
  \/ \E i \in 1..Len(net) : WeatherSettle(i)

Spec == Init /\ [][Next]_vars
SpecAuthSvc == Init /\ [][AuthSvcNext]_vars

\* The account service over a database that can fail.
AuthFaultNext ==
  \/ AuthSvcNext
  \/ \E r \in Slots : AuthSvcDbFails(r)

SpecAuthFaults == Init /\ [][AuthFaultNext]_vars

\* The dashboard of one user: alice logs in, then works in the calendar and
\* the planner while her requests are served or lost.
PlannerNext ==
  \/ LoginSubmit("alice", "pw1")
  \/ \E i \in 1..Len(net) : LoginResume(i)
  \/ \E i \in 1..Len(net) : ServeAuth(i)
  \/ \E i \in 1..Len(net) : ServeLoad(i)
  \/ \E i \in 1..Len(net) : ErrorLoad(i)
  \/ \E i \in 1..Len(net) : FailLoad(i)
  \/ \E i \in 1..Len(net) : ApplyLoad(i)
  \/ \E i \in 1..Len(net) : ServeSave(i)
  \/ \E i \in 1..Len(net) : FailSave(i)
  \/ \E i \in 1..Len(net) : WeatherSettle(i)
  \/ \E k \in DateKeys : SelectDate(k)
  \/ \E t \in TitleInputs, parts \in TimeInputs : AddEvent(t, parts)
  \/ \E j \in 1..Len(view.items) : DeleteEvent(j)
  \/ \E j \in 1..Len(view.items), t \in PromptInputs, parts \in TimeInputs :
       nMut < MaxEdits /\ EditEvent(j, t, parts)
  \/ \E j \in 1..Len(view.items), del \in BOOLEAN, t \in PromptInputs, parts \in TimeInputs :
       nMut < MaxEdits /\ ClickItem(j, del, t, parts)

SpecPlanner == Init /\ [][PlannerNext]_vars

\* A page freshly loaded, with the account alice made earlier and the rows
\* her earlier sessions saved.
StoredInit(rows) ==
  /\ dbUsers = InsertUser(<<>>, "alice", "pw1")
  /\ dbEvents = rows
  /\ srv = [r \in Slots |-> IdleHandler]
  /\ gh = [r \in Slots |-> NoGhost]
  /\ nReq = 0
  /\ epoch = [u \in Users |-> 0]
  /\ settled = [u \in Users |-> NoSettled]
  /\ asrv = [r \in Slots |-> IdleAuth]
  /\ agh = [r \in Slots |-> NoAuthGhost]
  /\ ClientInit

\* The dashboard of a user who saved the same event twice in an earlier
\* session: the database holds two rows with identical fields for one date.
DuplicatesInit == StoredInit(<<EventRow(1, Day1, EvX), EventRow(1, Day1, EvX)>>)

\* The dashboard of a user who saved four events of different colors on one
\* date.
FullDayInit ==
  StoredInit(<<EventRow(1, Day1, EvY), EventRow(1, Day1, EvX), EventRow(1, Day1, EvZ),
               EventRow(1, Day1, EvY)>>)

\* alice logs in and deletes planner items while her requests are served.
DeleteNext ==
  \/ LoginSubmit("alice", "pw1")
  \/ \E i \in 1..Len(net) : LoginResume(i)
  \/ \E i \in 1..Len(net) : ServeAuth(i)
  \/ \E i \in 1..Len(net) : ServeLoad(i)
  \/ \E i \in 1..Len(net) : ApplyLoad(i)
  \/ \E i \in 1..Len(net) : ServeSave(i)
  \/ \E i \in 1..Len(net) : WeatherSettle(i)
  \/ \E j \in 1..Len(view.items) : DeleteEvent(j)

SpecDuplicates == DuplicatesInit /\ [][DeleteNext]_vars
SpecFullDay == FullDayInit /\ [][DeleteNext]_vars

\* loadUsers, lines 241-248: with USE_REMOTE_STORAGE (line 201) the user map
\* a page starts with is the empty object.
LoadUsers == [u \in Users |-> Null]

\* authInit, lines 1060-1094, run by a load of the page: the script starts
\* again from its initial values, the requests of the page that went away are
\* aborted, and the session is restored from the stored marker when the user
\* map has an entry for it.
PageLoad ==
  LET storedUser == marker
      restored == ~Falsy(storedUser) /\ ~Falsy(LoadUsers[storedUser])
  IN /\ users' = LoadUsers
     /\ currentUser' = IF restored THEN storedUser ELSE Null
     /\ authVisible' = ~restored
     /\ dashVisible' = restored
     /\ menuVisible' = restored
     /\ dashboardInitialized' = restored
     /\ authForm' = "login"
     /\ alertMsg' = Null
     /\ store' = StubStore
     /\ selectedDate' = TodayKey
     /\ view' = NoView
     /\ listeners' = 0
     /\ net' = IF restored
               THEN LoadReq(storedUser) \o SaveReq(storedUser, StubStore)
                    \o LoadReq(storedUser) \o SaveReq(storedUser, StubStore) \o WeatherReq
               ELSE <<>>
     /\ unsaved' = FALSE
     /\ saveLost' = (saveLost \/ \E i \in 1..Len(net) : net[i].kind = "save")
     /\ lastAdd' = NoAdd
     /\ UNCHANGED <<dbVars, svcVars, widgetVars, marker, signedUp, nSubmit, nMut, nFail, nSel, nNoop>>

\* One user's page over several loads: alice logs in and out, her requests
\* are served, and the page is loaded again at any moment.
PageLoadNext ==
  \/ LoginSubmit("alice", "pw1")
  \/ \E i \in 1..Len(net) : LoginResume(i)
  \/ \E i \in 1..Len(net) : ServeAuth(i)
  \/ \E i \in 1..Len(net) : ServeLoad(i)
  \/ \E i \in 1..Len(net) : ApplyLoad(i)
  \/ \E i \in 1..Len(net) : ServeSave(i)
  \/ \E i \in 1..Len(net) : WeatherSettle(i)
  \/ Logout
  \/ PageLoad

SpecPageLoad == Init /\ [][PageLoadNext]_vars

-----------------------------------------------------------------------------
(* Browser client: the month grid *)

\* renderCalendar, lines 566-572: the grid of the month of the selected date.
BuildGrid ==
  /\ grid.dates = <<>>
  /\ grid' = [grid EXCEPT !.dates = buildCalendarDates(grid.year, grid.month)]
  /\ UNCHANGED <<dbVars, svcVars, clientVars, weatherVars>>

\* The page with the selected date in any month of the years of the model.
GridInit ==
  /\ \E y \in MinYear..MaxYear, m \in 0..11 :
        grid = [year |-> y, month |-> m, dates |-> <<>>]
  /\ dbUsers = <<>> /\ dbEvents = <<>>
  /\ srv = [r \in Slots |-> IdleHandler]
  /\ gh = [r \in Slots |-> NoGhost]
  /\ nReq = 0
  /\ epoch = [u \in Users |-> 0]
  /\ settled = [u \in Users |-> NoSettled]
  /\ asrv = [r \in Slots |-> IdleAuth]
  /\ agh = [r \in Slots |-> NoAuthGhost]
  /\ ClientPageInit
  /\ WeatherIdle /\ wnet = <<>>
  /\ clock = [day |-> MakeDay(2025, 7, 18), hour |-> 12, tz |-> 0]

SpecGrid == GridInit /\ [][BuildGrid]_vars

-----------------------------------------------------------------------------
(* Browser client: the weather bar of a dashboard *)

\* Mutant of FetchWeatherSettle: an answer for a place other than the
\* selected one is dropped.
FetchWeatherSettleCurrent(i, outcome) ==
  LET m == wnet[i]
      data == WeatherBody(outcome, m.place, clock)
  IN /\ m.kind = "weather"
     /\ wnet' = Without(wnet, i)
     /\ applied' = Append(applied, [place |-> m.place, valid |-> outcome = "valid"])
     /\ IF outcome = "valid" /\ m.place = location
        THEN forecast' = data.daily /\ currentWeather' = data.current_weather
        ELSE UNCHANGED <<forecast, currentWeather>>
     /\ UNCHANGED <<dbVars, svcVars, clientVars, grid, location, locationName, clock, nLoc>>

\* fetchWeather, lines 411-422, from the answer on: the assignments, then
\* renderWeather, which throws on an undefined state.currentWeather (line
\* 438); the catch runs fallbackWeather.
FetchWeatherSettle(i, outcome) ==
  LET m == wnet[i]
      data == WeatherBody(outcome, m.place, clock)
      thrown == \/ outcome \in {"rejected", "status", "notjson"}
                \/ ~data.current_weather.defined
      fb == fallbackWeather(clock)
  IN /\ m.kind = "weather"
     /\ wnet' = Without(wnet, i)
     /\ applied' = Append(applied, [place |-> m.place, valid |-> outcome = "valid"])
     /\ forecast' = IF thrown THEN fb.forecast ELSE data.daily
     /\ currentWeather' = IF thrown THEN fb.currentWeather ELSE data.current_weather
     /\ locationName' = IF thrown THEN fb.locationName ELSE locationName
     /\ UNCHANGED <<dbVars, svcVars, clientVars, grid, location, clock, nLoc>>

\* Lines 913-937: the click handler of the location text up to its await.
\* attachListeners runs after init's fetchWeather has settled (lines 986-992).
ChangeLocation(input) ==
  LET text == Trim(input)
      place == ParseLatLon(text)
  IN /\ Len(applied) > 0
     /\ nLoc < MaxLocationChanges
     /\ nLoc' = nLoc + 1
     /\ IF Falsy(input)
        THEN UNCHANGED <<location, locationName, wnet>>
        ELSE IF place # Null
        THEN /\ location' = place
             /\ locationName' = LatLonName(place)
             /\ wnet' = Append(wnet, WeatherFetch(place))
        ELSE /\ wnet' = Append(wnet, GeoFetch(text))
             /\ UNCHANGED <<location, locationName>>
     /\ UNCHANGED <<dbVars, svcVars, clientVars, grid, forecast, currentWeather, clock,
                    applied>>

\* Mutant of GeoSettle: the weather is fetched whatever geocode returned.
GeoSettleRefetches(i, outcome) ==
  LET m == wnet[i]
      geo == Geocoded(m.input)
  IN /\ m.kind = "geo"
     /\ location' = IF outcome = "result" THEN geo.place ELSE location
     /\ locationName' = IF outcome = "result" THEN geo.name ELSE m.input
     /\ wnet' = Append(Without(wnet, i), WeatherFetch(location'))
     /\ UNCHANGED <<dbVars, svcVars, clientVars, grid, forecast, currentWeather, clock,
                    nLoc, applied>>

\* Lines 931-943 with geocode, lines 957-968: the handler after its await.
\* geocode returns a place ("result"), returns null ("none") or throws
\* ("fail": fetch rejected, status not ok, body not JSON).
GeoSettle(i, outcome) ==
  LET m == wnet[i]
      geo == Geocoded(m.input)
  IN /\ m.kind = "geo"
     /\ IF outcome = "result"
        THEN /\ location' = geo.place
             /\ locationName' = geo.name
             /\ wnet' = Append(Without(wnet, i), WeatherFetch(geo.place))
        ELSE /\ locationName' = m.input
             /\ wnet' = Without(wnet, i)
             /\ UNCHANGED location
     /\ UNCHANGED <<dbVars, svcVars, clientVars, grid, forecast, currentWeather, clock,
                    nLoc, applied>>

\* The local dates, hours and UTC offsets (minutes ahead of UTC) of the model.
Clocks ==
  [day : {MakeDay(2025, 7, 18), MakeDay(2024, 11, 31)}, hour : {0, 23},
   tz : {-300, 0, 60}]

\* alice's dashboard at the moment init() has called fetchWeather (line 986),
\* the requests of her login left aside.
WeatherInit ==
  /\ dbUsers = InsertUser(<<>>, "alice", "pw1")
  /\ dbEvents = <<>>
  /\ srv = [r \in Slots |-> IdleHandler]
  /\ gh = [r \in Slots |-> NoGhost]
  /\ nReq = 0
  /\ epoch = [u \in Users |-> 0]
  /\ settled = [u \in Users |-> NoSettled]
  /\ asrv = [r \in Slots |-> IdleAuth]
  /\ agh = [r \in Slots |-> NoAuthGhost]
  /\ currentUser = "alice" /\ marker = "alice"
  /\ users = LoadUsers
  /\ store = StubStore
  /\ dashboardInitialized = TRUE
  /\ authVisible = FALSE /\ dashVisible = TRUE /\ menuVisible = TRUE
  /\ authForm = "login" /\ alertMsg = Null
  /\ selectedDate = TodayKey /\ view = NoView /\ listeners = 0
  /\ net = <<>>
  /\ signedUp = {} /\ unsaved = FALSE /\ saveLost = FALSE
  /\ nSubmit = 1 /\ nMut = 0 /\ nFail = 0 /\ nSel = 0 /\ nNoop = 0
  /\ lastAdd = NoAdd
  /\ grid = NoGrid
  /\ WeatherIdle
  /\ wnet = <<WeatherFetch(DefaultPlace)>>
  /\ clock \in Clocks

WeatherNext ==
  \/ \E i \in 1..Len(wnet), o \in WeatherOutcomes : FetchWeatherSettle(i, o)
  \/ \E input \in LocationInputs : ChangeLocation(input)
  \/ \E i \in 1..Len(wnet), o \in {"result", "none", "fail"} : GeoSettle(i, o)

SpecWeather == WeatherInit /\ [][WeatherNext]_vars

-----------------------------------------------------------------------------
(* Claims about the event service (SpecEventSvc) *)

IsDone(h, method) == h.pc = "done" /\ h.method = method

\* A mapping with a missing color replaced by the accent value.
WithAccent(m) ==
  [k \in DateKeys |->
     [has |-> m[k].has,
      evs |-> [i \in 1..Len(m[k].evs) |->
                 [m[k].evs[i] EXCEPT !.color = IF @ = Null THEN ACCENT ELSE @]]]]

\* A mapping as the service stores it: date keys with no event dropped, a
\* missing or empty color replaced by the accent value.
AsStored(m) ==
  [k \in DateKeys |->
     IF m[k].has /\ Len(m[k].evs) > 0
     THEN Bucket([i \in 1..Len(m[k].evs) |->
                    [m[k].evs[i] EXCEPT !.color = ColorOrAccent(@)]])
     ELSE NoBucket]

\* A GET that was received after a POST for its user had returned 200 with no
\* other POST for that user overlapping it, and that no later POST overlapped.
QuietGet(r) ==
  /\ IsDone(srv[r], "GET")
  /\ srv[r].user \in Users
  /\ gh[r].quiet.ok
  /\ epoch[srv[r].user] = gh[r].e0

\* A POST that returned with no other invocation active since it was received.
LonePost(r) ==
  /\ IsDone(srv[r], "POST")
  /\ srv[r].user \in Users
  /\ gh[r].alone

OthersUntouched(r) ==
  \A v \in Users \ {srv[r].user} :
    StoredMap(dbUsers, dbEvents, v) = StoredMap(gh[r].preUsers, gh[r].preEvents, v)

C8_FailedPostChangesNothing ==
  \A r \in Slots :
    LonePost(r) /\ srv[r].status # 200 =>
      /\ dbUsers = gh[r].preUsers
      /\ StoredMap(dbUsers, dbEvents, srv[r].user)
           = StoredMap(gh[r].preUsers, gh[r].preEvents, srv[r].user)

\* C10: once the only two POSTs ever received for a user have both returned
\* 200, the user's stored events are those of one of the two payloads.
C10_OneOfTwoPayloads ==
  \A r1 \in Slots, r2 \in Slots :
    ( /\ r1 # r2
      /\ IsDone(srv[r1], "POST") /\ srv[r1].status = 200
      /\ IsDone(srv[r2], "POST") /\ srv[r2].status = 200
      /\ srv[r1].user = srv[r2].user
      /\ epoch[srv[r1].user] = 2 )
    => StoredMap(dbUsers, dbEvents, srv[r1].user)
         \in {AsStored(srv[r1].payload.map), AsStored(srv[r2].payload.map)}

-----------------------------------------------------------------------------
(* Claims about the session (Spec) *)

UserExistsAlert == "User already exists. Please choose another username."
InvalidLoginAlert == "Invalid username or password."

\* The password the account service holds for a user that has a record.
StoredPassword(du, name) == SelectUser(du, name)[1].password

SavesFor(u) == {i \in 1..Len(net) : net[i].kind = "save" /\ net[i].user = u}
LoadsInFlight == {i \in 1..Len(net) : net[i].kind = "load"}

\* C1: when the response to a signup submitted for a user the account service
\* had already accepted a signup for on this page is handled, the submission is
\* rejected with the 'user exists' alert: currentUser, the session marker and
\* the dashboard stay as they were and no request (so no save) is sent.
C1_SecondSignupRejected ==
  [][\A i \in 1..Len(net) :
       (SignupResume(i) /\ net[i].late)
         => /\ alertMsg' = UserExistsAlert
            /\ UNCHANGED <<currentUser, marker, dashVisible, users>>
            /\ net' = Without(net, i)]_vars

\* C2: when the account service answered a login for a user it has a record of
\* with 401 (the password is not the one it holds) and nobody is logged in,
\* the submission is rejected:
\* the alert is shown, currentUser, the marker and the dashboard stay as they
\* were, and no load or save is sent.
C2_WrongPasswordRejected ==
  [][\A i \in 1..Len(net) :
       (LoginResume(i) /\ currentUser = Null /\ net[i].existed /\ net[i].status = 401)
         => /\ alertMsg' = InvalidLoginAlert
            /\ UNCHANGED <<currentUser, marker, dashVisible>>
            /\ net' = Without(net, i)]_vars

\* C3: while a user is logged in (no account having been made in the page's
\* local user map), the event store holds no event fetched for another user,
\* and no save in flight for that user carries one.
C3_NoCrossUserEvents ==
  (currentUser \in Users /\ \A u \in Users : users[u] = Null) =>
    /\ OriginsOf(store) \cap (Users \ {currentUser}) = {}
    /\ \A i \in SavesFor(currentUser) : net[i].origins \cap (Users \ {currentUser}) = {}

\* C4: no save sent for a user carries a built-in demonstration entry, and
\* once no load is in flight the store of a logged-in user holds none.
C4_NoDemoEntriesAfterLogin ==
  /\ \A i \in 1..Len(net) : net[i].kind = "save" => "stub" \notin net[i].origins
  /\ (currentUser \in Users /\ LoadsInFlight = {}) => "stub" \notin OriginsOf(store)

\* C5: a logout of a logged-in user sets currentUser to none, removes the
\* session marker, empties the event store, hides the dashboard and the user
\* menu and shows the authentication screen with the login form; it sends no
\* request and leaves the database, so the user's persisted events, as it was.
C5_LogoutEffects ==
  [][(Logout /\ currentUser \in Users)
       => /\ currentUser' = Null
          /\ marker' = Null
          /\ store' = EmptyStore
          /\ ~dashVisible' /\ ~menuVisible'
          /\ authVisible' /\ authForm' = "login"
          /\ net' = net
          /\ UNCHANGED dbVars
          /\ StoredMap(dbUsers', dbEvents', currentUser)
               = StoredMap(dbUsers, dbEvents, currentUser)]_vars

\* C5 witness: alice has logged out after a login on this page, her events
\* still in the database, requests of her session still in flight.
C5_Witness ==
  /\ dashboardInitialized /\ currentUser = Null /\ marker = Null
  /\ store = EmptyStore /\ authVisible /\ ~dashVisible /\ authForm = "login"
  /\ SavesFor("alice") # {}
  /\ StoredMap(dbUsers, dbEvents, "alice") # EmptyMap

\* C6: when the response to a forgot-password submission for a user the
\* account service has a record of is handled, the service holds the new
\* password for that user, the login form is shown and currentUser is as it was.
C6_ForgotChangesPassword ==
  [][\A i \in 1..Len(net) :
       (ForgotResume(i) /\ net[i].existed)
         => /\ StoredPassword(dbUsers', net[i].user) = net[i].newPassword
            /\ authForm' = "login"
            /\ UNCHANGED currentUser]_vars

-----------------------------------------------------------------------------
(* Claims about the account service (SpecAuthSvc) *)

\* An invocation that has answered, with no statement of another invocation
\* between its request and the present state.
AloneDone(r) == asrv[r].pc = "done" /\ agh[r].alone
IsCall(h, action) ==
  h.method = "POST" /\ h.body.action = action /\ ~Falsy(h.body.username)
HasRecord(du, name) == Len(SelectUser(du, name)) > 0
OneRecordPerName(du) == \A u \in Users : Len(SelectUser(du, u)) <= 1
\* du is pre with one more record, for name and with password pw.
OneRecordAdded(pre, du, name, pw) ==
  /\ Len(du) = Len(pre) + 1
  /\ SubSeq(du, 1, Len(pre)) = pre
  /\ du[Len(du)].username = name
  /\ du[Len(du)].password = pw

\* C11 as stated: a signup processed on its own for a username without a
\* record is answered 200 and adds one record holding the request's password,
\* whatever the request carries; for a username with a record it is answered
\* 400 and the records stay as they were; no username ever has two records.
C11_SignupAny ==
  /\ OneRecordPerName(dbUsers)
  /\ \A r \in Slots :
       (AloneDone(r) /\ IsCall(asrv[r], "signup")) =>
         LET h == asrv[r]
             pre == agh[r].preUsers
         IN IF HasRecord(pre, h.body.username)
            THEN h.status = 400 /\ dbUsers = pre
            ELSE /\ h.status = 200
                 /\ OneRecordAdded(pre, dbUsers, h.body.username, h.body.password)

\* C11, amended: a signup that carries a password (empty or not), processed
\* on its own for a username without a record, is answered 200 and adds one
\* record holding that password; one without a password is answered 500 and
\* adds nothing; a signup for a username with a record is answered 400 and
\* the records, so that record's password, stay as they were; in every
\* reachable state, under any interleaving, no username has two records.
C11_SignupContract ==
  /\ OneRecordPerName(dbUsers)
  /\ \A r \in Slots :
       (AloneDone(r) /\ IsCall(asrv[r], "signup")) =>
         LET h == asrv[r]
             pre == agh[r].preUsers
         IN IF HasRecord(pre, h.body.username)
            THEN h.status = 400 /\ dbUsers = pre
            ELSE IF h.body.password # Null
            THEN /\ h.status = 200
                 /\ OneRecordAdded(pre, dbUsers, h.body.username, h.body.password)
            ELSE h.status = 500 /\ dbUsers = pre

\* C11 witness: after an earlier request, a signup carrying a password for a
\* username without a record has been answered 200 and its record is there.
C11_Witness ==
  \E r \in Slots :
    /\ AloneDone(r) /\ IsCall(asrv[r], "signup") /\ asrv[r].status = 200
    /\ asrv[r].body.password \in Passwords
    /\ ~HasRecord(agh[r].preUsers, asrv[r].body.username)
    /\ StoredPassword(dbUsers, asrv[r].body.username) = asrv[r].body.password
    /\ nReq > 1

\* C12: under any interleaving, the statement of a login request answers it:
\* with 200 exactly when the username has a record whose stored password
\* equals the request's password, with 401 otherwise; the step changes no
\* user record and no event.
C12_LoginContract ==
  [][\A r \in Slots :
       AuthSvcLoginSelect(r) =>
         LET b == asrv[r].body
             match == HasRecord(dbUsers, b.username)
                        /\ StoredPassword(dbUsers, b.username) = b.password
         IN /\ asrv'[r].pc = "done"
            /\ asrv'[r].status = (IF match THEN 200 ELSE 401)
            /\ UNCHANGED dbVars]_vars

\* C12 witness: two logins for a username with a record have been answered,
\* one with 200 and one, with another password, with 401.
C12_Witness ==
  \E r, q \in Slots :
    /\ asrv[r].pc = "done" /\ IsCall(asrv[r], "login") /\ asrv[r].status = 200
    /\ asrv[q].pc = "done" /\ IsCall(asrv[q], "login") /\ asrv[q].status = 401
    /\ asrv[q].body.username = asrv[r].body.username
    /\ HasRecord(dbUsers, asrv[r].body.username)

\* The status a login request for name with password pw gets from the
\* account service when it is processed on its own against the records du.
LoginStatus(du, name, pw) ==
  RunAuth(AuthReceive("POST", AuthBody("login", name, pw, Null)), du).h.status
\* du is pre but for the password of the record of name, which is pw.
OnlyPasswordSet(pre, du, name, pw) ==
  /\ Len(du) = Len(pre)
  /\ \A i \in 1..Len(pre) :
       du[i] = IF pre[i].username = name THEN [pre[i] EXCEPT !.password = pw]
               ELSE pre[i]

\* C13: a changePassword request whose password or newPassword is missing or
\* empty is answered 400; processed on its own, a request with both is
\* answered 401 when the username has no record or its stored password
\* differs from the request's password, and otherwise 200 with the record's
\* password set to newPassword; after 400 or 401 the records are as before;
\* after 200 a login with newPassword is answered 200 and a login with the
\* old password, when it differs, 401.
C13_ChangePasswordContract ==
  \A r \in Slots :
    IsCall(asrv[r], "changePassword") =>
      LET b == asrv[r].body
          pre == agh[r].preUsers
          known == HasRecord(pre, b.username)
                     /\ StoredPassword(pre, b.username) = b.password
      IN /\ (Falsy(b.password) \/ Falsy(b.newPassword))
              => asrv[r].pc = "done" /\ asrv[r].status = 400
         /\ AloneDone(r) =>
              /\ asrv[r].status \in {200, 400, 401}
              /\ asrv[r].status = 401
                   <=> ~Falsy(b.password) /\ ~Falsy(b.newPassword) /\ ~known
              /\ asrv[r].status \in {400, 401} => dbUsers = pre
              /\ asrv[r].status = 200 =>
                   /\ OnlyPasswordSet(pre, dbUsers, b.username, b.newPassword)
                   /\ LoginStatus(dbUsers, b.username, b.newPassword) = 200
                   /\ b.password # b.newPassword
                        => LoginStatus(dbUsers, b.username, b.password) = 401

\* C13 witness: a changePassword to a different password has been answered
\* 200, and a login with the new password, processed after it, 200.
C13_Witness ==
  \E r, q \in Slots :
    /\ asrv[r].pc = "done" /\ IsCall(asrv[r], "changePassword")
    /\ asrv[r].status = 200
    /\ asrv[r].body.password # asrv[r].body.newPassword
    /\ asrv[q].pc = "done" /\ IsCall(asrv[q], "login") /\ asrv[q].status = 200
    /\ asrv[q].body.username = asrv[r].body.username
    /\ asrv[q].body.password = asrv[r].body.newPassword
    /\ StoredPassword(dbUsers, asrv[r].body.username) = asrv[r].body.newPassword

-----------------------------------------------------------------------------
(* Claims about the records of the event service (SpecEventSvc) *)

\* A step of the event-service invocation in slot r, its arrival included.
StepOf(r, method) == srv'[r] # srv[r] /\ srv'[r].method = method

\* C14: under any interleaving, no step of a GET /events, from its arrival to
\* its response, changes the user records or the stored events; and when its
\* first statement finds no record for the username, the GET is answered 200
\* with the empty mapping.
C14_GetReadsOnly ==
  [][\A r \in Slots :
       StepOf(r, "GET") =>
         /\ UNCHANGED dbVars
         /\ (srv[r].pc = "get_user" /\ ~HasRecord(dbUsers, srv[r].user))
              => /\ srv'[r].pc = "done"
                 /\ srv'[r].status = 200
                 /\ srv'[r].body = EmptyMap]_vars

\* C14 witness: a GET for a username without a record has been answered 200
\* with the empty mapping while events of another user are stored, and the
\* username still has no record.
C14_Witness ==
  \E r \in Slots :
    /\ IsDone(srv[r], "GET") /\ srv[r].user \in Users
    /\ srv[r].status = 200 /\ srv[r].body = EmptyMap
    /\ ~HasRecord(dbUsers, srv[r].user)
    /\ dbEvents # <<>>

\* A POST the handler accepted: a user and an events value that is an object.
Accepted(h) == h.user \in Users /\ h.payload.kind \in {"map", "null"}

\* What a POST /events that ran on its own has done to the user records, and,
\* when it was answered 200, to the stored events of its user.
PostRecords(r) ==
  LET h == srv[r]
      pre == gh[r].preUsers
  IN /\ IF HasRecord(pre, h.user) THEN dbUsers = pre
        ELSE OneRecordAdded(pre, dbUsers, h.user, Blank)
     /\ h.status = 200
          => StoredMap(dbUsers, dbEvents, h.user) = AsStored(h.payload.map)

\* C15: a POST /events the handler accepts, processed on its own for a
\* username without a record, adds exactly one record, for that username and
\* with the empty password, and, answered 200, leaves the posted events stored
\* under it; for a username with a record it leaves the records as they were;
\* and under any interleaving no step of a POST changes an existing record.
C15_PostCreatesBlankRecord ==
  /\ [](\A r \in Slots : (LonePost(r) /\ Accepted(srv[r])) => PostRecords(r))
  /\ [][\A r \in Slots :
          StepOf(r, "POST") =>
            /\ Len(dbUsers') >= Len(dbUsers)
            /\ \A i \in 1..Len(dbUsers) : dbUsers'[i] = dbUsers[i]]_vars

\* C15 witness: a POST with events for a username without a record has been
\* answered 200; the record with the empty password and the events are there,
\* next to the record of another user.
C15_Witness ==
  \E r \in Slots :
    /\ LonePost(r) /\ srv[r].status = 200
    /\ ~HasRecord(gh[r].preUsers, srv[r].user)
    /\ Len(gh[r].preUsers) > 0
    /\ StoredPassword(dbUsers, srv[r].user) = Blank
    /\ StoredMap(dbUsers, dbEvents, srv[r].user) # EmptyMap
    /\ StoredMap(dbUsers, dbEvents, srv[r].user) = AsStored(srv[r].payload.map)

-----------------------------------------------------------------------------
(* Claims about the dashboard (SpecPlanner) *)

\* C9: when the user has changed the store through the planner, every save
\* sent has been processed with status 200 and the store has not changed since
\* the last save was sent, the events the service holds for the user are those
\* of the store (as the service stores them).
C9_LastLocalWriteWins ==
  (currentUser \in Users /\ nMut > 0 /\ SavesFor(currentUser) = {}
     /\ ~saveLost /\ ~unsaved)
    => StoredMap(dbUsers, dbEvents, currentUser) = AsStored(WireStore(store))

\* A step of one of the planner's handlers: the add button, the delete icon,
\* the edit icon, or a click on an item.
AddStep == \E t \in TitleInputs, parts \in TimeInputs : AddEvent(t, parts)
DeleteStep(j) == DeleteEvent(j)
EditStep(j) == \E t \in PromptInputs, parts \in TimeInputs : EditEvent(j, t, parts)
ClickStep(j) ==
  \E del \in BOOLEAN, t \in PromptInputs, parts \in TimeInputs : ClickItem(j, del, t, parts)
ItemStep(j) == DeleteStep(j) \/ EditStep(j) \/ ClickStep(j)
UiStep == AddStep \/ \E j \in 1..Len(view.items) : ItemStep(j)

\* The step has sent one more request, a save of the whole of store st for the
\* current user.
SavedWhole(st) ==
  /\ currentUser \in Users
  /\ Len(net') = Len(net) + 1
  /\ SubSeq(net', 1, Len(net)) = net
  /\ LET m == net'[Len(net')]
     IN /\ m.kind = "save" /\ m.stage = "req" /\ m.user = currentUser
        /\ m.payload = WireStore(st)
        /\ \A k \in DateKeys : m.payload[k].has = st[k].has

\* C16: a step of a planner handler that changes the event store sends, in the
\* same step, a save of the whole new store (every date key) for the current
\* user and leaves planner and calendar rendered from the new store.
C16_MutationSavedAndRendered ==
  [][(UiStep /\ store' # store)
       => SavedWhole(store') /\ view' = Render(store', selectedDate')]_vars

\* C16 witness: the user has changed the store through the planner; the last
\* request sent is the save of the store, which holds lists on other dates
\* than the selected one, and the views show the store.
C16_Witness ==
  /\ nMut > 0 /\ currentUser \in Users /\ net # <<>>
  /\ net[Len(net)].kind = "save" /\ net[Len(net)].stage = "req"
  /\ net[Len(net)].payload = WireStore(store)
  /\ \E k \in DateKeys \ {selectedDate} : store[k].has /\ store[k].evs # <<>>
  /\ store # StubStore
  /\ view = Render(store, selectedDate)

\* C17: every step of a per-item planner handler (delete icon, edit icon,
\* click on the item; all-day or timed item; prompt answered, answered blank
\* or cancelled) leaves planner and calendar rendered from the store as the
\* step left it.
C17_ItemActionRerenders ==
  [][\A j \in 1..Len(view.items) :
       ItemStep(j) => view' = Render(store', selectedDate')]_vars

\* The event object the last run of the add handler pushed.
AddedEvent == LET evs == lastAdd.after[lastAdd.key].evs IN evs[Len(evs)]
\* A delete of planner item j: by its delete icon, or by a click confirmed.
DeleteOf(j) == DeleteEvent(j) \/ ClickItem(j, TRUE, Null, <<Blank>>)

\* C18: when the store is as the add handler left it and the user deletes the
\* event that handler added, the list of that date is again the list before
\* the add (the empty list when the date had none) and every other date is as
\* it was before the add.
C18_AddThenDelete ==
  [][\A j \in 1..Len(view.items) :
       (/\ DeleteOf(j)
        /\ lastAdd.ok /\ store = lastAdd.after
        /\ view.pkey = lastAdd.key
        /\ view.items[j].oid = AddedEvent.oid)
         => /\ store'[lastAdd.key].evs = lastAdd.before[lastAdd.key].evs
            /\ \A k \in DateKeys \ {lastAdd.key} : store'[k] = lastAdd.before[k]]_vars

\* C18 witness: an event was added on a date that had no list and then
\* deleted; the date has the empty list and the other dates are as before.
C18_Witness ==
  /\ lastAdd.ok /\ nMut = MaxMutations
  /\ ~lastAdd.before[lastAdd.key].has
  /\ store # lastAdd.after
  /\ store[lastAdd.key] = Bucket(<<>>)
  /\ \A k \in DateKeys \ {lastAdd.key} : store[k] = lastAdd.before[k]
  /\ \E k \in DateKeys : store[k].evs # <<>>

\* An edit of the title of planner item j alone: the edit icon or a click not
\* confirmed as a delete, the title prompt answered with input (Null when
\* cancelled), the time prompt of a timed event left blank.
TitleEdit(j, input) ==
  EditEvent(j, input, <<Blank>>) \/ ClickItem(j, FALSE, input, <<Blank>>)
\* The events of store st, but for their titles.
Untitled(st) ==
  [k \in DateKeys |-> [i \in 1..Len(st[k].evs) |-> [st[k].evs[i] EXCEPT !.title = Blank]]]
\* The title store st holds for the event object oid under key (Null: the
\* object is not in that list).
TitleOf(st, key, oid) ==
  LET idx == IndexOf(st[key].evs, oid)
  IN IF idx > 0 THEN st[key].evs[idx].title ELSE Null

\* C19: a title edit of a planner item whose trimmed input is not empty
\* leaves the item's event in the store with the trimmed input as its title,
\* every other field of every event and the title of every other event as
\* they were; a cancelled or blank title edit leaves every title as it was.
C19_TitleEditOnlyTitle ==
  [][\A j \in 1..Len(view.items), input \in PromptInputs :
       TitleEdit(j, input) =>
         LET key == view.pkey
             oid == view.items[j].oid
         IN /\ Untitled(store') = Untitled(store)
            /\ \A k \in DateKeys : \A i \in 1..Len(store[k].evs) :
                 (k # key \/ store[k].evs[i].oid # oid)
                   => store'[k].evs[i].title = store[k].evs[i].title
            /\ IF Falsy(NewTitle(input))
               THEN TitleOf(store', key, oid) = TitleOf(store, key, oid)
               ELSE TitleOf(store', key, oid) = Trim(input)]_vars

-----------------------------------------------------------------------------
(* Claims about loading (Spec) *)

\* C20: when the response P to a load request is applied to the store S, the
\* store has P's list under every date key of P and S's list under every
\* other one; when the request failed or the response is not a 200, or P has
\* no date key, the store is as it was; in every case nothing else of the page
\* changes: no alert, no change of user, forms or views.
C20_LoadOverlays ==
  [][\A i \in 1..Len(net) :
       /\ ApplyLoad(i) =>
            /\ IF net[i].status = 200
               THEN \A k \in DateKeys :
                      IF net[i].body[k].has
                      THEN WireStore(store')[k] = net[i].body[k]
                      ELSE store'[k] = store[k]
               ELSE store' = store
            /\ net[i].body = EmptyMap => store' = store
            /\ UNCHANGED <<pageVars, view, selectedDate>>
       /\ FailLoad(i) => UNCHANGED <<store, pageVars, view, selectedDate>>]_vars

\* C20 witness: a loaded list lies over one date of the demo entries while
\* the lists of other dates are still those of the demo entries, and a load
\* has failed or been answered with an error.
C20_Witness ==
  /\ \E k \in DateKeys :
       /\ store[k].evs # <<>>
       /\ \A j \in 1..Len(store[k].evs) : store[k].evs[j].origin \in Users
  /\ \E k \in DateKeys : store[k].evs # <<>> /\ store[k] = StubStore[k]
  /\ nFail > 0

-----------------------------------------------------------------------------
(* Claims about failed saves (SpecPlanner) *)

SaveFails == \E i \in 1..Len(net) : FailSave(i)

\* C21: a save that fails changes neither the event store (the result of the
\* mutation that triggered it stays) nor the session nor what is rendered,
\* sends no request again, and blocks no handler (no alert is raised).
C21_FailedSaveChangesNothing ==
  [][SaveFails =>
       /\ store' = store
       /\ UNCHANGED pageVars
       /\ view' = view /\ selectedDate' = selectedDate
       /\ Len(net') = Len(net) - 1
       /\ \A k \in 1..Len(net') : \E j \in 1..Len(net) : net[j] = net'[k]
       /\ nMut' = nMut
  ]_vars

\* A save was lost after a mutation whose result the store still holds.
C21_Witness ==
  /\ saveLost /\ nFail = 1 /\ net = <<>>
  /\ lastAdd.ok /\ store = lastAdd.after

-----------------------------------------------------------------------------
(* Claims about the one-time initialisation of the dashboard (Spec) *)

\* The runs of init(): those still waiting for fetchWeather and those that
\* went on to attach the listeners.
InitRuns ==
  listeners + Cardinality({i \in 1..Len(net) : net[i].kind = "weather"})

\* A login or a signup succeeds: its handler does not alert.
AuthSucceeds ==
  /\ \E i \in 1..Len(net) : LoginResume(i) \/ SignupResume(i)
  /\ alertMsg' = Null

\* C22: init() runs at most once in the life of the page, exactly when the
\* flag is set, so the listeners are attached at most once; an authentication
\* that finds the flag set fetches no weather, attaches nothing, and renders
\* the calendar and the planner from the store it leaves.
C22_InitOnce ==
  /\ [](InitRuns = IF dashboardInitialized THEN 1 ELSE 0)
  /\ [](listeners <= 1)
  /\ [][AuthSucceeds /\ dashboardInitialized =>
          /\ InitRuns' = InitRuns
          /\ listeners' = listeners
          /\ view' = Render(store', selectedDate)
          /\ \A k \in 1..Len(net') : net'[k].kind \in {"load", "save"}
                  \/ \E j \in 1..Len(net) : net[j] = net'[k]]_vars

\* A user signed up, and now another one is logged in: the second
\* authentication of the page, with the listeners attached once.
C22_Witness ==
  /\ signedUp # {} /\ currentUser # Null /\ currentUser \notin signedUp
  /\ dashboardInitialized /\ listeners = 1

-----------------------------------------------------------------------------
(* Claims about the session over page loads (SpecPageLoad) *)

\* C23: a page loaded while the stored marker names a user (who logged in
\* and did not log out) starts authenticated as that user, with the
\* dashboard shown and the authentication screen hidden.
C23_SessionRestored ==
  [][PageLoad /\ marker \in Users =>
       currentUser' = marker /\ dashVisible' /\ ~authVisible']_vars

-----------------------------------------------------------------------------
(* Claims about the validation of the authentication forms (Spec) *)

\* A field of the submission is missing (the user name after trimming).
Missing(typed, fields) ==
  Falsy(Trim(typed)) \/ \E j \in 1..Len(fields) : Falsy(fields[j])

\* A submission that the form's validation must stop.
InvalidSubmit ==
  \E typed \in FormInputs, p \in PasswordInputs, c \in PasswordInputs :
    \/ LoginSubmit(typed, p) /\ Missing(typed, <<p>>)
    \/ SignupSubmit(typed, p, c) /\ (Missing(typed, <<p, c>>) \/ p # c)
    \/ ForgotSubmit(typed, p, c) /\ (Missing(typed, <<p, c>>) \/ p # c)

\* C24: a login, signup or forgot-password submission with a missing field,
\* or a signup or forgot-password submission whose confirmation differs,
\* changes neither currentUser nor the marker nor the event store nor the
\* local user map, and sends no request: it only alerts.
C24_InvalidSubmitChangesNothing ==
  [][InvalidSubmit =>
       /\ UNCHANGED <<currentUser, marker, store, users, net, dbVars>>
       /\ UNCHANGED <<authVisible, dashVisible, dashboardInitialized, view>>
       /\ alertMsg' # Null]_vars

\* The forgot-password form has just refused a confirmation that differs.
C24_Witness ==
  /\ alertMsg = "Passwords do not match." /\ authForm = "forgot"
  /\ currentUser = Null /\ marker = Null

-----------------------------------------------------------------------------
(* Claims about the month grid (SpecGrid) *)

-----------------------------------------------------------------------------
(* Claims about the weather bar (SpecWeather) *)

\* C26: the forecast of fallbackWeather has exactly 7 entries, the dates of
\* 7 consecutive days of which the first is the local date of the browser,
\* whatever its UTC offset and the hour.
C26_FallbackSevenDays ==
  forecast.kind = "fallback" =>
    /\ Len(forecast.time) = 7
    /\ \A j \in 1..Len(forecast.time) : forecast.time[j] = DateText(clock.day + j - 1)

\* The same in the zones that are not ahead of UTC.
C26_FallbackSevenDaysWest ==
  forecast.kind = "fallback" /\ clock.tz <= 0 =>
    /\ Len(forecast.time) = 7
    /\ \A j \in 1..Len(forecast.time) : forecast.time[j] = DateText(clock.day + j - 1)

\* The length and the succession of the days alone, in every zone.
C26_FallbackConsecutive ==
  forecast.kind = "fallback" =>
    /\ Len(forecast.time) = 7
    /\ \E t \in {clock.day - 1, clock.day} :
          \A j \in 1..7 : forecast.time[j] = DateText(t + j - 1)

\* C27: once a fetchWeather call has settled, whatever the provider's answer
\* was, the state holds a forecast that is not empty and a defined current
\* weather, and after every answer that is not a valid body these are the
\* ones of fallbackWeather.
C27_SettledWeatherShown ==
  applied # <<>> =>
    /\ forecast.kind \in {"daily", "fallback"} /\ Len(forecast.time) > 0
    /\ currentWeather.defined
    /\ ~applied[Len(applied)].valid =>
          /\ forecast = fallbackWeather(clock).forecast
          /\ currentWeather = fallbackWeather(clock).currentWeather

\* The same without the answers that carry the current weather and no daily part.
C27_SettledWeatherShownButNoDaily ==
  applied # <<>> /\ forecast.kind # "undefined" =>
    /\ forecast.kind \in {"daily", "fallback"} /\ Len(forecast.time) > 0
    /\ currentWeather.defined
    /\ ~applied[Len(applied)].valid =>
          /\ forecast = fallbackWeather(clock).forecast
          /\ currentWeather = fallbackWeather(clock).currentWeather

\* C28: weather requests are neither cancelled nor ordered.  A change of
\* the location leaves every request in flight where it is, and a valid
\* answer is applied when it arrives, whatever place is selected by then.
C28_ResponsesAppliedAsTheyArrive ==
  [][/\ (\E i \in 1..Len(wnet) : FetchWeatherSettle(i, "valid")) =>
          forecast' = Daily(applied'[Len(applied')].place, clock)
     /\ (\E input \in LocationInputs : ChangeLocation(input)) =>
          SubSeq(wnet', 1, Len(wnet)) = wnet
     /\ (\E i \in 1..Len(wnet), o \in {"result", "none", "fail"} : GeoSettle(i, o)) =>
          \A j \in 1..Len(wnet) :
            wnet[j].kind = "weather" => \E k \in 1..Len(wnet') : wnet'[k] = wnet[j]
    ]_vars

\* The location went to L1 and then to L2 while the request for L1 was in
\* flight; the answer for L2 was applied, then the one for L1: the selected
\* place is L2 and the forecast is the one for L1.
C28_Witness ==
  /\ wnet = <<>> /\ Len(applied) = 3
  /\ applied[2].valid /\ applied[2].place = location
  /\ applied[3].valid /\ applied[3].place \notin {location, DefaultPlace}
  /\ forecast.kind = "daily" /\ forecast.place = applied[3].place

\* The geocoding request i ends without a place.
GeoFinds(i, o) == wnet[i].kind = "geo" /\ GeoSettle(i, o)

\* C29: when geocode finds no place for the typed name, or its request
\* fails, the handler sets the display name to the typed (trimmed) text and
\* nothing else: the coordinates, the forecast and the current weather stay
\* and no weather request is sent.
C29_NoPlaceOnlyRenames ==
  [][\A i \in 1..Len(wnet), o \in {"none", "fail"} :
       GeoFinds(i, o) =>
         /\ locationName' = wnet[i].input
         /\ UNCHANGED <<location, forecast, currentWeather, applied>>
         /\ wnet' = Without(wnet, i)
         /\ UNCHANGED <<dbVars, svcVars, clientVars, grid>>
    ]_vars

\* The display name is the typed name, trimmed, and the coordinates are
\* still the default ones: no place was found for it.
C29_Witness ==
  /\ locationName = "N" /\ location = DefaultPlace
  /\ wnet = <<>> /\ Len(applied) = 1 /\ nLoc = 1

-----------------------------------------------------------------------------
(* Claims about the statuses of the account service (SpecAuthFaults) *)

\* Invocation r ends in this step.
AuthEnds(r) == asrv[r].pc # "done" /\ asrv'[r].pc = "done"

\* What the claim says of an invocation that has ended.
AuthAnswerAsDocumented(h) ==
  /\ h.status \in {200, 400, 401, 405, 500}
  /\ h.method # "POST" => h.status = 405
  /\ h.method = "POST" /\ h.json = "invalid" => h.status = 400
  /\ h.method = "POST" /\ h.json \in {"object", "absent"}
       /\ (Falsy(h.body.action) \/ Falsy(h.body.username)) => h.status = 400
  /\ h.method = "POST" /\ h.json = "object"
       /\ ~Falsy(h.body.action) /\ ~Falsy(h.body.username)
       /\ h.body.action \notin {"signup", "login", "changePassword"} => h.status = 400
  /\ (h.reply = "ok") <=> (h.status = 200)

\* What the claim says of the steps of the service.
AuthStepsAsDocumented ==
  /\ \A r \in Slots : AuthSvcDbFails(r) => asrv'[r].status = 500
  /\ \A r \in Slots :
       AuthEnds(r) /\ asrv'[r].status \in {400, 401, 405} => dbUsers' = dbUsers
  /\ dbUsers' # dbUsers => \E r \in Slots : AuthEnds(r) /\ asrv'[r].status = 200

\* C30: every request is answered with one of 200, 400, 401, 405, 500 (405
\* for a method other than POST, 400 for a body that cannot be parsed, for a
\* missing action or user name and for an unknown action, 500 for a failure
\* of the database), the body is {status:'ok'} exactly with 200, and a
\* request answered 400, 401 or 405 changes no user record.
C30_StatusContract ==
  /\ [](\A r \in Slots : asrv[r].pc = "done" => AuthAnswerAsDocumented(asrv[r]))
  /\ [][AuthStepsAsDocumented]_vars

\* The same for the requests whose body is not the JSON text null.
C30_StatusContractButNull ==
  /\ [](\A r \in Slots : asrv[r].pc = "done" /\ asrv[r].json # "null" =>
          AuthAnswerAsDocumented(asrv[r]))
  /\ [][AuthStepsAsDocumented]_vars

-----------------------------------------------------------------------------
(* Claims about logins, loads and the rendered views *)

\* The event the database holds for alice when the page starts, as GET
\* returns it.
StoredX == [EvX EXCEPT !.color = ACCENT]

HoldsStoredX(m) == m[Day1].has /\ \E j \in 1..Len(m[Day1].evs) : m[Day1].evs[j] = StoredX

\* alice is logged in, every load and save of her logins has been processed
\* and applied, no request was lost and nobody else used the page.
LoginSettled ==
  /\ currentUser = "alice"
  /\ \A i \in 1..Len(net) : net[i].kind \notin {"load", "save", "auth"}
  /\ nFail = 0
  /\ signedUp = {}
  /\ \A u \in Users : users[u] = Null

\* C31: once the loads and saves of alice's logins have all completed, in
\* whatever order they were processed, the event stored for her before the
\* login is still stored for her and is in the event store.
C31_LoginKeepsStoredEvents ==
  LoginSettled =>
    /\ HoldsStoredX(StoredMap(dbUsers, dbEvents, "alice"))
    /\ HoldsStoredX(WireStore(store))

\* An event with the fields of ev is in the list of date k.
KeptIn(st, k, ev) == \E j \in 1..Len(st[k].evs) : ToWire(st[k].evs[j]) = ToWire(ev)

\* C32: when the response of a load for the current user is applied, every
\* event of the store that the user added, edited or was given by an earlier
\* load (every event but the built-in entries) is still in the store, under
\* its date and with the same fields.
C32_LoadKeepsUserEvents ==
  [][\A i \in 1..Len(net) :
       (ApplyLoad(i) /\ net[i].user = currentUser)
         => \A k \in DateKeys : \A j \in 1..Len(store[k].evs) :
              store[k].evs[j].origin # "stub" => KeptIn(store', k, store[k].evs[j])]_vars

\* C32 for the events the add handler put in the store: violated as well.
C32_LoadKeepsAddedEvents ==
  [][\A i \in 1..Len(net) :
       (ApplyLoad(i) /\ net[i].user = currentUser)
         => \A k \in DateKeys : \A j \in 1..Len(store[k].evs) :
              store[k].evs[j].origin = "ui" => KeptIn(store', k, store[k].evs[j])]_vars

\* What a rendered view shows: the fields of the planner items, in order, and
\* the dots of the calendar cells.
Shown(vw) ==
  [pkey |-> vw.pkey, items |-> [j \in 1..Len(vw.items) |-> ToWire(vw.items[j])],
   dots |-> vw.dots]

\* C33: whenever a user is logged in (no account having been made in the
\* page's local user map) and no request is in flight, the rendered calendar
\* and planner show the event store and the selected date as they are now.
C33_ViewsFollowStore ==
  (currentUser \in Users /\ net = <<>> /\ \A u \in Users : users[u] = Null)
    => Shown(view) = Shown(Render(store, selectedDate))

-----------------------------------------------------------------------------
(* Claims about first-time initialization *)

\* The session with a weather provider that answers or fails every request
\* in the end, and a user who closes every alert. alert() blocks the page, the
\* continuation of init() included, until it is closed; the continuation of a
\* settled request then runs before the next event of the user is handled,
\* so being ready again and again is enough for it to run.
SpecSettles ==
  /\ Init /\ [][Next]_vars
  /\ SF_vars(\E i \in 1..Len(net) : WeatherSettle(i))
  /\ WF_vars(DismissAlert)

\* The weather request of init() has not settled yet.
WeatherPending == \E i \in 1..Len(net) : net[i].kind = "weather"

LaterAuthRenders == \E i \in 1..Len(net) : LoginResume(i) \/ SignupResume(i)

\* C34 as stated: while the weather request of init() has not settled,
\* neither view is rendered and no listener is attached.
C34_NothingRenderedWhilePending == WeatherPending => (~view.rendered /\ listeners = 0)

\* C34, amended: while the weather request of init() has not settled no
\* listener is attached and the views are rendered by nothing but the branch
\* of a later login or signup; the step in which the request settles renders
\* both views from the store and attaches the listeners; and once init() has
\* sent the request, the views are rendered and the listeners attached in the
\* end.
C34_InitAfterWeather ==
  /\ [](WeatherPending => listeners = 0)
  /\ [][(WeatherPending /\ view' # view /\ WeatherPending') => LaterAuthRenders]_vars
  /\ [][(WeatherPending /\ ~WeatherPending')
          => (view' = Render(store, selectedDate) /\ listeners' = 1)]_vars
  /\ (WeatherPending ~> (view.rendered /\ listeners = 1))

\* The first login has resumed, init() awaits the weather request, and the
\* dashboard is shown with nothing rendered and no listener.
C34_Witness ==
  /\ WeatherPending /\ dashVisible /\ currentUser = "alice"
  /\ ~view.rendered /\ listeners = 0 /\ dashboardInitialized
  /\ \A u \in Users : users[u] = Null

-----------------------------------------------------------------------------
(* Claims about the planner and calendar views *)

\* The positions of the list at which the object of identity oid is.
PositionsOf(evs, oid) == {n \in 1..Len(evs) : evs[n].oid = oid}

\* The list without its n-th element.
Dropped(evs, n) == [m \in 1..(Len(evs) - 1) |-> IF m < n THEN evs[m] ELSE evs[m + 1]]

\* C35: a click on the delete icon of a planner item removes from the list of
\* the item's date the one object the item was rendered from and nothing
\* else, whatever events with the same fields the list holds; when the object
\* is not in the list any more, the list keeps all its events. In both cases
\* the other dates keep their lists, the whole store is saved and both views
\* are rendered from it.
C35_DeleteByIdentity ==
  [][\A j \in 1..Len(view.items) :
       DeleteStep(j) =>
         LET oid == view.items[j].oid
             key == view.pkey
             evs == store[key].evs
         IN /\ Cardinality(PositionsOf(evs, oid)) <= 1
            /\ \A n \in PositionsOf(evs, oid) : store'[key].evs = Dropped(evs, n)
            /\ PositionsOf(evs, oid) = {} => store'[key].evs = evs
            /\ \A k \in DateKeys \ {key} : store'[k] = store[k]
            /\ SavedWhole(store')
            /\ view' = Render(store', selectedDate')]_vars

\* C35 witness: of the two stored events with identical fields, loaded and
\* rendered as two items, one delete has removed one; the other is still in
\* the store and in the planner.
C35_Witness ==
  /\ nMut = 1
  /\ Len(store[Day1].evs) = 1 /\ ToWire(store[Day1].evs[1]) = StoredX
  /\ view = Render(store, selectedDate) /\ selectedDate = Day1
  /\ store[Day1].evs[1].origin = "alice"

\* The other case of C35 has happened: the planner showed items of a list that
\* a load had replaced since, one delete was clicked, and the list still holds
\* both loaded events.
C35_StaleDeleteDone ==
  /\ nMut = 1
  /\ Len(store[Day1].evs) = 2 /\ OriginsOf(store) \cap {"alice"} # {}
  /\ view = Render(store, selectedDate) /\ selectedDate = Day1
  /\ \E i \in 1..Len(net) : net[i].kind = "save" /\ net[i].payload = WireStore(store)

\* The UTF-16 code units of the time texts that occur.
CodeUnits(t) ==
  CASE t = "00:00" -> <<48, 48, 58, 48, 48>>
    [] t = "08:30" -> <<48, 56, 58, 51, 48>>
    [] t = "09:00" -> <<48, 57, 58, 48, 48>>
    [] t = "11:30" -> <<49, 49, 58, 51, 48>>
    [] t = "14:00" -> <<49, 52, 58, 48, 48>>
    [] t = "15:00" -> <<49, 53, 58, 48, 48>>
    [] t = "18:00" -> <<49, 56, 58, 48, 48>>
    [] t = "9:30" -> <<57, 58, 51, 48>>

\* a is before b, or equal to it, in lexicographic order.
RECURSIVE LexLeq(_, _)
LexLeq(a, b) ==
  IF a = <<>> THEN TRUE
  ELSE IF b = <<>> THEN FALSE
  ELSE IF Head(a) # Head(b) THEN Head(a) < Head(b)
  ELSE LexLeq(Tail(a), Tail(b))

AllDayList(vw) == SelectSeq(vw.items, LAMBDA ev : ev.allDay)
TimedList(vw) == SelectSeq(vw.items, LAMBDA ev : ~ev.allDay)

\* The planner vw shows the list of its date in store st: every event once,
\* the all-day events in the all-day list, the others in the timed list, the
\* timed list in non-decreasing lexicographic order of start.
PlannerShows(vw, st) ==
  LET evs == st[vw.pkey].evs IN
  /\ vw.items = AllDayList(vw) \o TimedList(vw)
  /\ Len(vw.items) = Len(evs)
  /\ \A n \in 1..Len(evs) : Cardinality({j \in 1..Len(vw.items) : vw.items[j] = evs[n]}) = 1
  /\ \A j \in 1..Len(TimedList(vw)) : \A n \in j..Len(TimedList(vw)) :
       LexLeq(CodeUnits(TimedList(vw)[j].start), CodeUnits(TimedList(vw)[n].start))

RenderOnly == (\E k \in DateKeys : SelectDate(k)) \/ (\E i \in 1..Len(net) : WeatherSettle(i))

DotColor(ev) == IF ev.color \in {Null, Blank} THEN "var(--accent)" ELSE ev.color

AtMostThree(n) == IF n < 3 THEN n ELSE 3

\* The calendar vw shows the store st: under every date min(3, n) dots, the
\* j-th in the color of the j-th stored event.
CalendarShows(vw, st) ==
  \A k \in DateKeys :
    /\ Len(vw.dots[k]) = AtMostThree(Len(st[k].evs))
    /\ \A j \in 1..AtMostThree(Len(st[k].evs)) : vw.dots[k][j] = DotColor(st[k].evs[j])

\* C37: every step that renders the calendar leaves each cell with min(3, n)
\* dots, n being the number of events stored under the cell's date, made from
\* the first three events in stored order; a step that only renders leaves
\* the event store, so the events beyond the third, as it was.
C37_ThreeDots ==
  /\ [][view' # view => CalendarShows(view', store')]_vars
  /\ [][RenderOnly => store' = store]_vars

\* C37 witness: the four stored events are loaded and the calendar is
\* rendered: the cell shows the dots of the first three, whose colors are not
\* those of the last three, and the fourth event is in the store.
C37_Witness ==
  /\ view.rendered /\ nMut = 0
  /\ Len(store[Day1].evs) = 4 /\ OriginsOf(store) \cap {"alice"} # {}
  /\ view.dots[Day1] = <<"#FF0000", ACCENT, ACCENT>>
  /\ store[Day1].evs[4].color = "#FF0000"

-----------------------------------------------------------------------------
(* Claims about the records of user names *)

\* Invocations r and q have both answered a signup that carried a password,
\* for the same user name, which had no record when either was received.
SignupsRaced(r, q) ==
  /\ r # q
  /\ asrv[r].pc = "done" /\ asrv[q].pc = "done"
  /\ IsCall(asrv[r], "signup") /\ IsCall(asrv[q], "signup")
  /\ asrv[r].body.username = asrv[q].body.username
  /\ asrv[r].body.password # Null /\ asrv[q].body.password # Null
  /\ ~HasRecord(agh[r].preUsers, asrv[r].body.username)
  /\ ~HasRecord(agh[q].preUsers, asrv[q].body.username)

\* The one record of the user name holds the password of invocation r.
RecordOf(r) ==
  LET rows == SelectUser(dbUsers, asrv[r].body.username)
  IN Len(rows) = 1 /\ rows[1].password = asrv[r].body.password

\* C38: of two signups for one user name without a record that are processed
\* concurrently, one is answered 200 and the other 400, and the one record of
\* the name holds the password of the request answered 200.
C38_OneSignupWins ==
  \A r, q \in Slots :
    SignupsRaced(r, q) =>
      \/ asrv[r].status = 200 /\ asrv[q].status = 400 /\ RecordOf(r)
      \/ asrv[q].status = 200 /\ asrv[r].status = 400 /\ RecordOf(q)

\* What holds of C38: one of the two is answered 200 and its password is in
\* the one record of the name; the other is answered 400 when its SELECT ran
\* after the INSERT of the first, and 500 when it ran before.
C38_OneSignupWinsOr500 ==
  \A r, q \in Slots :
    SignupsRaced(r, q) =>
      \/ asrv[r].status = 200 /\ asrv[q].status \in {400, 500} /\ RecordOf(r)
      \/ asrv[q].status = 200 /\ asrv[r].status \in {400, 500} /\ RecordOf(q)

\* The account service answers a signup that carries a password, for a user
\* name no signup has succeeded for: not the one of the account made before
\* the page started, and none the service accepted since.
FirstSignupServed(i) ==
  /\ ServeAuth(i)
  /\ net[i].action = "signup" /\ net[i].password # Null
  /\ net[i].user \in Users \ ({"alice"} \cup signedUp)

\* C39: a signup for a user name that no signup has succeeded for is answered
\* 200, whatever requests the event service has processed for that name.
C39_FirstSignupSucceeds ==
  [][\A i \in 1..Len(net) : FirstSignupServed(i) => net'[i].status = 200]_vars

-----------------------------------------------------------------------------
(* Claims about the session state *)

\* C40: in every state the dashboard is shown exactly when a user is logged
\* in and the authentication screen exactly when none is; every login or
\* signup that succeeds and every logout leaves the session marker equal to
\* currentUser (absent when nobody is logged in).
C40_SessionConsistent ==
  /\ [](dashVisible <=> currentUser # Null)
  /\ [](authVisible <=> currentUser = Null)
  /\ [][(AuthSucceeds \/ Logout) => marker' = currentUser']_vars

\* C40 witness: bob's signup, the second submission of the page, has
\* succeeded and init() has finished: the dashboard is shown for bob and the
\* marker names him.
C40_Witness ==
  /\ currentUser = "bob" /\ marker = "bob" /\ "bob" \in signedUp
  /\ dashVisible /\ ~authVisible /\ menuVisible
  /\ nSubmit = 2 /\ listeners = 1

====
